---- MODULE Spec2Model ----
(***************************************************************************)
(* Display orchestration engine of the LED ticker (ticker.py, utils.py,    *)
(* workers.py): the main rendering loop with its DisplayFSM, override      *)
(* controller, score-alert queue and market-event detection, the three     *)
(* data workers publishing through put_latest into bounded queues, the     *)
(* config editor writing config.json, and signal-driven shutdown.          *)
(*                                                                         *)
(* Time is an integer number of abstract units.  An hour is HourLen units, *)
(* a calendar day is HoursPerDay hours.  The main loop runs many times per *)
(* unit, so any number of loop iterations may happen at one value of now.  *)
(***************************************************************************)
EXTENDS Integers, Sequences, FiniteSets, TLC

\* ------------------------------------------------------------------ bounds
MaxTime     == 5      \* the clock stops advancing here
MaxEdits    == 1      \* number of writes the config editor performs
MaxScore    == 1      \* scores reported by the sports provider are 0..MaxScore
MaxPushes   == 5      \* alerts pushed in the alert-queue specification
MaxMaintX   == 2      \* width of the maintenance scroll lap, in pixels
MaxWrites   == 2      \* writes to config.json in the override and reload specifications
MaxQueued   == 2      \* messages put into a queue between two drains
MinPct      == -5     \* a negative percentage, as a dim setting can be given
MaxPct      == 150    \* the largest percentage a dim setting is given
MaxW        == 16     \* width of the panel, in pixels
MaxRowW     == 16     \* width of the scrolling row, in pixels
MaxStep     == 6      \* travel of the row in one frame, in quarter pixels

\* ------------------------------------------------- time scale of the model
HourLen     == 5      \* units per wall-clock hour
HoursPerDay == 2      \* hours per calendar day
WindowLen   == 2      \* length of a market-event window
FlashLen    == 1      \* SCORE_ALERTS_FLASH_MS / 1000
TIME_PREROLL_SEC == 1
OverrideMinute == 2   \* units per minute of OVERRIDE_DURATION_MIN

\* ------------------------------------------------------- program constants
MQ_MAXSIZE  == 10
WQ_MAXSIZE  == 5
SBQ_MAXSIZE == 20
NumFlashColors == 1
SCORE_ALERTS_CYCLES == 1
WEATHER_WARNING_EVERY_N_SCROLLS  == 2   \* 5, in passes of this model
WEATHER_ADVISORY_EVERY_N_SCROLLS == 3   \* 10
MESSAGE_EVERY == 2                      \* 5
MARKET_OPEN_SCROLLS == 2                \* 5: passes MARKET OPEN is shown for
NoneTs      == -1     \* Python None for an optional timestamp
Quarter     == 4      \* a scroll position is held in quarters of a pixel

DEMO_MODE == FALSE

WorkerNames == {"market", "weather", "scoreboard"}
OverrideModes == {"BRIGHT", "SCOREBOARD", "MESSAGE", "MAINT", "CLOCK"}

VARIABLES
    \* environment
    now,                 \* time.time()
    score_now,           \* the home score the sports provider reports
    cfg_file,            \* content of config.json
    file_mtime,          \* os.path.getmtime(CONFIG_PATH)
    file_state,          \* "ok" | "corrupt" (unparseable) | "missing"
    \* main process
    pc,                  \* position of the main process
    cfg,                 \* module globals set from the config
    _cfg_mtime,
    _shutdown_requested,
    override_mode, override_active, override_end_ts,
    state, preroll_reason, state_enter_ts, next_top_ts,
    market_event_shown_today,
    alert_queue, alert_maxlen, alert_obj,
    last_scores,
    market_cache, weather_cache, scoreboard_latest,
    workers,             \* worker name -> "None" | "alive" | "dead"
    worker_gen,          \* worker name -> number of Process objects started
    market_args,         \* ALL_TICKERS the market worker was started with
    x_top,               \* scroll cursor of the ticker row
    frame_dimmed,        \* the last frame went through apply_dimming_inplace
    x_maint,             \* scroll position of the maintenance loop
    render_mode,         \* the render branch composed by the last iteration
    render_state,        \* the DisplayFSM state that iteration composed for
    loop_count,          \* iterations of the main loop, modulo 2
    \* worker processes
    wpc,                 \* worker name -> position in its poll cycle
    wmsgs,               \* worker name -> messages still to publish this cycle
    q,                   \* worker name -> queue content, oldest first
    status_doc,          \* worker name -> its record in ticker_status.json
    \* config editor
    reply,               \* outcome of the last raw or API write: "saved" | "rejected"
    \* brightness
    dim_args,            \* the settings and the time current_dim_scale reads
    dim_scale,           \* the scale it returned, in percent
    \* night-mode window
    range_args,          \* the three times time_in_range is called with
    in_range,            \* what it returned
    \* single-row scroll
    x_single,            \* scroll cursor of the single row, in quarter pixels
    \* weather banner
    weather_banner,      \* the pinned banner: active, message, severity
    banner_in,           \* the weather payload folded last
    completed_single,    \* scroll completions of the single row
    weather_scroll_shown, \* a weather alert pass is under way
    show_msg_single,     \* the injected message goes into the coming pass
    market_open_scrolls_left, \* passes the MARKET OPEN segment still has
    market_open_scroll_date,  \* the day MARKET OPEN was armed for, or None
    parts,               \* the segments the last ticker frame was composed of
    row_mode,            \* "weather" | "ticker": the pass that frame drew
    \* score alerts
    _SCORE_FLASH_COLORS, \* the flash colors parsed at import
    \* worker processes and the scoreboard queue, by process
    rpc,                 \* main loop: "start" | "poll" | "reload" | "done"
    rfile,               \* config.json: a revision per worker category
    rmem,                \* the same as loaded into the globals
    procs,               \* worker name -> the processes alive, by number
    handles,             \* workers[name]: number of the process, 0 for None
    nstarted,            \* worker name -> processes started so far
    sbq_by,              \* sbq: the process that put each message
    cache_by,            \* scoreboard_latest: the processes its snapshots are from
    rendering,           \* the globals of rendering.py mirrored from ticker.py
    \* the reload poll, by step
    m_read,              \* m: the modification time _maybe_reload_config read
    \* ticker_status.json, by step of update_worker_status
    st_pc,               \* worker name -> "idle" | "loaded" | "dumped"
    st_data,             \* worker name -> status_data of its last update
    status_file,         \* ticker_status.json
    status_tmp,          \* ticker_status.json.tmp
    \* sports provider
    game_state,          \* the followed NHL game: "none" | "LIVE" | "FINAL"
    \* history
    fire_log,            \* market-event prerolls fired, in order
    last_pub,            \* worker name -> the snapshot it put last
    pushed               \* number of alerts pushed so far

envVars    == <<now, score_now, cfg_file, file_mtime, file_state>>
cfgVars    == <<cfg, _cfg_mtime>>
ovVars     == <<override_mode, override_active, override_end_ts>>
fsmVars    == <<state, preroll_reason, state_enter_ts, next_top_ts,
                market_event_shown_today, fire_log>>
alertVars  == <<alert_queue, alert_maxlen, alert_obj, last_scores, pushed>>
cacheVars  == <<market_cache, weather_cache, scoreboard_latest>>
workerVars == <<wpc, wmsgs, q, last_pub, status_doc>>
procVars   == <<worker_gen, market_args, x_top, frame_dimmed>>
mainVars   == <<pc, _shutdown_requested, workers, x_maint, render_mode,
                render_state, loop_count, procVars>>
bannerVars == <<weather_banner, banner_in>>
rowVars    == <<completed_single, weather_scroll_shown, show_msg_single,
                market_open_scrolls_left, market_open_scroll_date, parts,
                row_mode>>
restartVars == <<rpc, rfile, rmem, procs, handles, nstarted, sbq_by, cache_by,
                 rendering>>
statusVars == <<st_pc, st_data, status_file, status_tmp, m_read>>
fnVars     == <<range_args, in_range, x_single, bannerVars, game_state,
                _SCORE_FLASH_COLORS, rowVars, restartVars, statusVars>>
dimVars    == <<dim_args, dim_scale, reply, fnVars>>
vars == <<envVars, cfgVars, ovVars, fsmVars, alertVars, cacheVars,
          workerVars, mainVars, dimVars>>

\* ------------------------------------------------------------ small helpers
Max(a, b) == IF a >= b THEN a ELSE b
Min(a, b) == IF a <= b THEN a ELSE b
None == <<>>
Some(v) == <<v>>

\* ------------------------------------------------------------------- time
\* _compute_next_hour_ts: the next wall-clock hour boundary after t
_compute_next_hour_ts_Drift(t) == t + HourLen

_compute_next_hour_ts(t) == ((t \div HourLen) + 1) * HourLen

\* datetime.now().date()
Date(t) == t \div (HourLen * HoursPerDay)
\* weekday(): day 0 is a Monday
Weekday(t) == Date(t) % 7
TimeOfDay(t) == t % (HourLen * HoursPerDay)

\* start of the market-open window: half past the first hour of the day
OpenStart  == HourLen \div 2
\* start of the market-close window: top of the second hour of the day
CloseStart == HourLen

\* get_market_event_announcement: [show, message]
get_market_event_announcement(t) ==
    IF Weekday(t) >= 5 THEN [show |-> FALSE, message |-> ""]
    ELSE IF TimeOfDay(t) >= OpenStart /\ TimeOfDay(t) < OpenStart + WindowLen
         THEN [show |-> TRUE, message |-> "*** MARKET OPEN ***"]
    ELSE IF TimeOfDay(t) >= CloseStart /\ TimeOfDay(t) < CloseStart + WindowLen
         THEN [show |-> TRUE, message |-> "*** MARKET CLOSED ***"]
    ELSE [show |-> FALSE, message |-> ""]

\* ----------------------------------------------------------------- config
\* the config keys the display engine reads (subset of the list in _apply_config)
Keys == {"SCOREBOARD_ENABLED", "SCOREBOARD_PRECEDENCE", "TIME_PREROLL_ENABLED",
         "SCORE_ALERTS_ENABLED", "SCORE_ALERTS_QUEUE_MAX",
         "OVERRIDE_MODE", "OVERRIDE_DURATION_MIN", "MAINTENANCE_MODE",
         "TICKERS_TOP", "HOLDINGS_ENABLED", "TIME_PREROLL_SEC",
         "SCORE_ALERTS_CYCLES", "SCORE_ALERTS_NHL", "SCORE_ALERTS_NFL",
         "SCORE_ALERTS_MY_TEAMS_ONLY",
         "WEATHER_WARNING_EVERY_N_SCROLLS", "WEATHER_ADVISORY_EVERY_N_SCROLLS",
         "MESSAGE_EVERY", "MESSAGE_TEST_FORCE", "CLOCK_24H"}

\* module-level defaults (environment not set)
Defaults ==
    [SCOREBOARD_ENABLED     |-> TRUE,
     SCOREBOARD_PRECEDENCE  |-> "normal",
     TIME_PREROLL_ENABLED   |-> TRUE,
     SCORE_ALERTS_ENABLED   |-> TRUE,
     SCORE_ALERTS_QUEUE_MAX |-> 4,
     OVERRIDE_MODE          |-> "OFF",
     OVERRIDE_DURATION_MIN  |-> 0,
     MAINTENANCE_MODE       |-> FALSE,
     TICKERS_TOP            |-> {"AAPL"},
     HOLDINGS_ENABLED       |-> FALSE,
     TIME_PREROLL_SEC       |-> TIME_PREROLL_SEC,
     SCORE_ALERTS_CYCLES    |-> SCORE_ALERTS_CYCLES,
     SCORE_ALERTS_NHL       |-> TRUE,
     SCORE_ALERTS_NFL       |-> TRUE,
     SCORE_ALERTS_MY_TEAMS_ONLY |-> TRUE,
     WEATHER_WARNING_EVERY_N_SCROLLS  |-> WEATHER_WARNING_EVERY_N_SCROLLS,
     WEATHER_ADVISORY_EVERY_N_SCROLLS |-> WEATHER_ADVISORY_EVERY_N_SCROLLS,
     MESSAGE_EVERY          |-> MESSAGE_EVERY,
     MESSAGE_TEST_FORCE     |-> FALSE,
     CLOCK_24H              |-> TRUE]

\* set_if: the change categories a key raises when its value changes
Categories(key) ==
    (IF key \in {"SCOREBOARD_ENABLED", "SCOREBOARD_PRECEDENCE"}
        THEN {"scoreboard"} ELSE {})
    \cup (IF key \in {"OVERRIDE_MODE", "OVERRIDE_DURATION_MIN", "CLOCK_24H"}
        THEN {"override"} ELSE {})
    \cup (IF key \in {"TICKERS_TOP", "HOLDINGS_ENABLED"}
        THEN {"markets"} ELSE {})

\* a document without any key: what json.load gives for "{}"
EmptyDoc == [k \in {} |-> FALSE]

\* _atomic_load_json falling back to the built-in defaults
_atomic_load_json_Defaults(content, fstate) ==
    IF fstate = "ok" THEN content ELSE Defaults

\* _atomic_load_json: the document of the file, {} when it cannot be read
\* or parsed
_atomic_load_json(content, fstate) ==
    IF fstate = "ok" THEN content ELSE EmptyDoc

\* _apply_config: every key present in the document replaces the global when
\* it differs
_apply_config(old, doc) ==
    [k \in Keys |-> IF k \in DOMAIN doc THEN doc[k] ELSE old[k]]

\* the change flags _apply_config returns
changed(old, doc) ==
    UNION {Categories(k) :
              k \in {kk \in Keys \cap DOMAIN doc : old[kk] # doc[kk]}}

\* ALL_TICKERS: the symbols of the ticker rows
ALL_TICKERS(c) == c.TICKERS_TOP

\* override_mode / override_active / override_end_ts from the globals
OverrideOf(c, t) ==
    LET m == IF c.OVERRIDE_MODE \in OverrideModes THEN c.OVERRIDE_MODE ELSE "OFF"
        a == (m # "OFF")
    IN  [mode   |-> m,
         active |-> a,
         end_ts |-> IF a /\ c.OVERRIDE_DURATION_MIN > 0
                       THEN t + c.OVERRIDE_DURATION_MIN * OverrideMinute
                       ELSE NoneTs]

\* ------------------------------------------------------- messages, caches
Leagues == <<"NHL", "NFL">>
LeagueSet == {"NHL", "NFL"}

\* a queue message: type, and for a snapshot its league, whether its game is
\* LIVE, and the home score (market and weather snapshots carry a version)
Msg(ty, lg, lv, sc) == [type |-> ty, league |-> lg, live |-> lv, score |-> sc]

EmptyScoreboard == [l \in LeagueSet |-> None]

\* a message that is not a dict (a string, a list): it has no key at all
NotAMapping == [raw |-> "text"]
IsMapping(msg) == "raw" \notin DOMAIN msg

\* msg.get("type"): None (here "") when the key is missing
TypeOf(msg) == IF "type" \in DOMAIN msg THEN msg.type ELSE ""

\* msg["payload"] finds its key
HasPayload(msg) == {"league", "live", "score"} \subseteq DOMAIN msg

\* msg.get("type") on a value that is not a dict raises AttributeError, and
\* msg["payload"] on a message of the queue's type without that key raises
\* KeyError; the drain loops catch queue_std.Empty only
PollRaises(msg, ty) ==
    \/ ~IsMapping(msg)
    \/ TypeOf(msg) = ty /\ ~HasPayload(msg)

\* one get_nowait of the scoreboard queue folded into scoreboard_latest
FoldScoreboard(cache, msg) ==
    IF TypeOf(msg) = "scoreboard" /\ msg.league # ""
        THEN [cache EXCEPT ![msg.league] = Some(msg)]
        ELSE cache

\* one get_nowait of the market (weather) queue folded into its cache
FoldTyped(cache, msg, ty) ==
    IF TypeOf(msg) = ty THEN Some(msg) ELSE cache

RECURSIVE FoldAllScoreboard(_, _)
FoldAllScoreboard(cache, queue) ==
    IF queue = <<>> THEN cache
    ELSE FoldAllScoreboard(FoldScoreboard(cache, Head(queue)), Tail(queue))

RECURSIVE FoldAllTyped(_, _, _)
FoldAllTyped(cache, queue, ty) ==
    IF queue = <<>> THEN cache
    ELSE FoldAllTyped(FoldTyped(cache, Head(queue), ty), Tail(queue), ty)

\* any_live (ticker.py line 1257)
any_live(cache) ==
    \E l \in LeagueSet : cache[l] # None /\ cache[l][1].live

\* ------------------------------------------------------------ score alerts
\* _push_alert on a full queue dropping the new alert instead of the oldest
_push_alert_DropNewest(queue, maxlen, entry) ==
    IF Len(queue) >= maxlen THEN queue ELSE Append(queue, entry)

\* _push_alert on a deque(maxlen): evict the oldest when full, then append
_push_alert(queue, maxlen, entry) ==
    Append(IF Len(queue) >= maxlen THEN Tail(queue) ELSE queue, entry)

\* ScoreAlert.__init__
ScoreAlert(entry, cycles, t) ==
    [league       |-> entry.league,
     score        |-> entry.score,
     flashes_left |-> Max(1, cycles) * Max(1, Len(_SCORE_FLASH_COLORS)),
     flash_idx    |-> 0,
     flash_next_ts |-> t + FlashLen,
     \* history: the cycles asked for, the color changes made so far
     cycles       |-> cycles,
     flashed      |-> 0]

\* ScoreAlert.current_color: advances the flash when its deadline has passed
current_color(a, t) ==
    IF t >= a.flash_next_ts
        THEN [a EXCEPT !.flash_idx = (a.flash_idx + 1)
                                        % Max(1, Len(_SCORE_FLASH_COLORS)),
                       !.flash_next_ts = t + FlashLen,
                       !.flashes_left = a.flashes_left - 1,
                       !.flashed = a.flashed + 1]
        ELSE a

\* ScoreAlert.done reached one flash early
done_OneEarly(a) == a.flashes_left <= 1

\* ScoreAlert.done
done(a) == a.flashes_left <= 0

NFL_TD_DELTA_MIN == 6

\* detect_score_bursts for one league: [queue, scores] after the league's game
DetectLeague(res, cache, lg, enabled, maxlen) ==
    IF cache[lg] = None THEN res
    ELSE LET g    == cache[lg][1]
             prev == res.scores[lg]
             ls   == [res.scores EXCEPT ![lg] = Some(g.score)]
         IN  IF prev = None THEN [res EXCEPT !.scores = ls]
             ELSE IF ~g.live THEN [res EXCEPT !.scores = ls]
             ELSE LET dh == g.score - prev[1]
                      scored == IF lg = "NHL" THEN dh > 0
                                ELSE dh >= NFL_TD_DELTA_MIN
                  IN  IF scored
                        THEN [queue  |-> _push_alert(res.queue, maxlen,
                                           [league |-> lg, score |-> g.score]),
                              scores |-> ls]
                        ELSE [res EXCEPT !.scores = ls]

\* detect_score_bursts: NHL first, then NFL
detect_score_bursts(queue, scores, cache, enabled, maxlen) ==
    IF ~enabled THEN [queue |-> queue, scores |-> scores]
    ELSE DetectLeague(
            DetectLeague([queue |-> queue, scores |-> scores],
                         cache, "NHL", enabled, maxlen),
            cache, "NFL", enabled, maxlen)

\* -------------------------------------------------------------- DisplayFSM
STATE_TICKER     == "TK"
STATE_PREROLL    == "PR"
STATE_SCOREBOARD == "SB"

\* the event type check_market_event_preroll reads off the message
EventType(message) ==
    IF message = "*** MARKET OPEN ***" THEN "open"
    ELSE IF message = "*** MARKET CLOSED ***" THEN "close"
    ELSE ""

\* check_market_event_preroll that does not consult market_event_shown_today
check_market_event_preroll_NoShownTest(c, shown, t) ==
    LET no  == [trigger |-> FALSE, type |-> "", shown |-> shown]
        ann == get_market_event_announcement(t)
        ty  == EventType(ann.message)
    IN  IF ~c.TIME_PREROLL_ENABLED \/ ~ann.show \/ ty = "" THEN no
        ELSE [trigger |-> TRUE, type |-> ty,
              shown |-> shown \cup {<<Date(t), ty>>}]

\* check_market_event_preroll: [trigger, type, shown]
check_market_event_preroll(c, shown, t) ==
    LET no  == [trigger |-> FALSE, type |-> "", shown |-> shown]
        ann == get_market_event_announcement(t)
        ty  == EventType(ann.message)
        today_key == <<Date(t), ty>>
    IN  IF ~c.TIME_PREROLL_ENABLED THEN no
        ELSE IF ~ann.show THEN no
        ELSE IF ty = "" THEN no
        ELSE IF today_key \in shown THEN no
        ELSE [trigger |-> TRUE, type |-> ty, shown |-> shown \cup {today_key}]

\* the FSM variables as one record
Fsm == [state |-> state, preroll_reason |-> preroll_reason,
        state_enter_ts |-> state_enter_ts, next_top_ts |-> next_top_ts,
        shown |-> market_event_shown_today, log |-> fire_log]

\* transitions out of STATE_TICKER (lines 1267-1277)
FromTicker(c, f, live, t) ==
    IF c.TIME_PREROLL_ENABLED /\ t >= f.next_top_ts
      THEN [f EXCEPT !.state = STATE_PREROLL, !.state_enter_ts = t,
                     !.preroll_reason = "hour",
                     !.next_top_ts = _compute_next_hour_ts(t)]
      ELSE LET ev == check_market_event_preroll(c, f.shown, t)
           IN  IF ev.trigger
                 THEN [f EXCEPT !.state = STATE_PREROLL, !.state_enter_ts = t,
                                !.preroll_reason = "market_" \o ev.type,
                                !.shown = ev.shown,
                                !.log = Append(f.log, <<Date(t), ev.type>>)]
               ELSE IF c.SCOREBOARD_ENABLED /\ live
                 THEN [f EXCEPT !.state = STATE_SCOREBOARD, !.state_enter_ts = t]
               ELSE f

\* transitions out of STATE_PREROLL with a live game evicting the preroll
\* under any precedence
FromPreroll_AnyPrecedence(c, f, live, t) ==
    IF c.SCOREBOARD_ENABLED /\ live
      THEN [f EXCEPT !.state = STATE_SCOREBOARD, !.state_enter_ts = t]
    ELSE IF t - f.state_enter_ts >= c.TIME_PREROLL_SEC
      THEN [f EXCEPT !.state = STATE_TICKER, !.state_enter_ts = t]
    ELSE f

\* transitions out of STATE_PREROLL with the duration test made first
FromPreroll_DurationFirst(c, f, live, t) ==
    IF t - f.state_enter_ts >= c.TIME_PREROLL_SEC
      THEN [f EXCEPT !.state = STATE_TICKER, !.state_enter_ts = t]
    ELSE f

\* transitions out of STATE_PREROLL (lines 1278-1283)
FromPreroll(c, f, live, t) ==
    IF c.SCOREBOARD_PRECEDENCE = "force" /\ c.SCOREBOARD_ENABLED /\ live
      THEN [f EXCEPT !.state = STATE_SCOREBOARD, !.state_enter_ts = t]
    ELSE IF t - f.state_enter_ts >= c.TIME_PREROLL_SEC
      THEN [f EXCEPT !.state = STATE_TICKER, !.state_enter_ts = t]
    ELSE f

\* STATE_SCOREBOARD left only when the scoreboard is disabled
FromScoreboard_WhenDisabled(c, f, live, t) ==
    IF ~c.SCOREBOARD_ENABLED
      THEN [f EXCEPT !.state = STATE_TICKER, !.state_enter_ts = t]
      ELSE f

\* transitions out of STATE_SCOREBOARD (lines 1284-1286)
FromScoreboard(c, f, live, t) ==
    IF ~(c.SCOREBOARD_ENABLED /\ live)
      THEN [f EXCEPT !.state = STATE_TICKER, !.state_enter_ts = t]
      ELSE f

\* the gate without its override test
TransitionsEvaluated_NoOverride(c, ovActive, alert) ==
    ~(c.SCORE_ALERTS_ENABLED /\ alert # None)

\* the gate of the normal state transitions (line 1266)
TransitionsEvaluated(c, ovActive, alert) ==
    ~ovActive /\ ~(c.SCORE_ALERTS_ENABLED /\ alert # None)

\* normal state transitions (lines 1266-1286)
Transitions(c, ovActive, alert, f, live, t) ==
    IF ~TransitionsEvaluated(c, ovActive, alert) THEN f
    ELSE IF f.state = STATE_TICKER THEN FromTicker(c, f, live, t)
    ELSE IF f.state = STATE_PREROLL THEN FromPreroll(c, f, live, t)
    ELSE FromScoreboard(c, f, live, t)

\* the render branches with the alert test ahead of the override test
RenderBranch_AlertFirst(c, ovActive, ovMode, queue, alert, f) ==
    IF c.SCORE_ALERTS_ENABLED /\ (alert # None \/ queue # <<>>) THEN "alert"
    ELSE IF ovActive /\ ovMode # "BRIGHT" THEN "override"
    ELSE IF f.state = STATE_PREROLL THEN "preroll"
    ELSE IF f.state = STATE_SCOREBOARD /\ c.SCOREBOARD_ENABLED THEN "scoreboard"
    ELSE "ticker"

\* the render branch chosen for the frame (lines 1365-1599)
RenderBranch(c, ovActive, ovMode, queue, alert, f) ==
    IF ovActive /\ ovMode # "BRIGHT" THEN "override"
    ELSE IF c.SCORE_ALERTS_ENABLED /\ (alert # None \/ queue # <<>>) THEN "alert"
    ELSE IF f.state = STATE_PREROLL THEN "preroll"
    ELSE IF f.state = STATE_SCOREBOARD /\ c.SCOREBOARD_ENABLED THEN "scoreboard"
    ELSE "ticker"

\* the alert branch (lines 1464-1479): [queue, alert]
RenderAlert(c, queue, alert, t) ==
    LET pop == (alert = None /\ queue # <<>>)
        a1  == IF pop THEN ScoreAlert(Head(queue), c.SCORE_ALERTS_CYCLES, t)
               ELSE alert[1]
        a2  == current_color(a1, t)
    IN  [queue |-> IF pop THEN Tail(queue) ELSE queue,
         alert |-> IF done(a2) THEN None ELSE Some(a2)]

\* the preroll branch (lines 1482-1508): a market-event preroll whose
\* announcement window has closed ends the preroll
RenderPreroll(f, t) ==
    IF f.preroll_reason \in {"market_open", "market_close"}
       /\ ~get_market_event_announcement(t).show
      THEN [f EXCEPT !.state = STATE_TICKER, !.state_enter_ts = t]
      ELSE f

\* ------------------------------------------------------------ main process
\* override expiry that waits until the deadline has been passed
Expire_Late(ov, t) ==
    IF ov.active /\ ov.end_ts # NoneTs /\ t > ov.end_ts
      THEN [mode |-> "OFF", active |-> FALSE, end_ts |-> NoneTs]
      ELSE ov

\* override expiry at the top of an iteration (lines 1096-1098)
Expire(ov, t) ==
    IF ov.active /\ ov.end_ts # NoneTs /\ t >= ov.end_ts
      THEN [mode |-> "OFF", active |-> FALSE, end_ts |-> NoneTs]
      ELSE ov

Override == [mode |-> override_mode, active |-> override_active,
             end_ts |-> override_end_ts]

\* run() up to the main loop: initial config load, override, workers, state
Start ==
    /\ pc = "start"
    /\ LET c  == _apply_config(cfg, _atomic_load_json(cfg_file, file_state))
           ov == OverrideOf(c, now)
       IN  /\ cfg' = c
           /\ _cfg_mtime' = IF file_state = "ok" /\ cfg_file # EmptyDoc
                               THEN file_mtime ELSE _cfg_mtime
           /\ worker_gen' = [w \in WorkerNames |->
                            IF DEMO_MODE THEN 0
                            ELSE IF w = "scoreboard" /\ ~c.SCOREBOARD_ENABLED
                                 THEN 0 ELSE 1]
           /\ market_args' = ALL_TICKERS(c)
           /\ override_mode' = ov.mode
           /\ override_active' = ov.active
           /\ override_end_ts' = ov.end_ts
           /\ workers' = [w \in WorkerNames |->
                            IF DEMO_MODE THEN "None"
                            ELSE IF w = "scoreboard" /\ ~c.SCOREBOARD_ENABLED
                                 THEN "None" ELSE "alive"]
           /\ pc' = IF c.MAINTENANCE_MODE /\ ~ov.active THEN "maint" ELSE "loop"
           /\ alert_maxlen' = Max(1, c.SCORE_ALERTS_QUEUE_MAX)
    /\ alert_queue' = <<>>
    /\ alert_obj' = None
    /\ state' = STATE_TICKER
    /\ state_enter_ts' = now
    /\ preroll_reason' = "hour"
    /\ next_top_ts' = _compute_next_hour_ts(now)
    /\ market_event_shown_today' = {}
    /\ UNCHANGED <<envVars, dimVars, cacheVars, workerVars, last_scores, pushed,
                   fire_log, _shutdown_requested, x_maint, render_mode, render_state,
                   loop_count, x_top, frame_dimmed>>

\* _terminate_worker followed by the restart decided by the reload:
\* the handle after a scoreboard-category change (lines 1183-1207)
RestartScoreboard(c, ws) ==
    [ws EXCEPT !["scoreboard"] = IF c.SCOREBOARD_ENABLED THEN "alive" ELSE "None"]

\* every worker restarted whenever a reload returned a flag
Restarted_All(c, flags) == IF flags = {} THEN {} ELSE WorkerNames

\* the worker processes restarted by a reload that returned flags (lines
\* 1139-1207; the weather category has no key in this model)
Restarted(c, flags) ==
    IF DEMO_MODE THEN {}
    ELSE (IF "markets" \in flags THEN {"market"} ELSE {})
         \cup (IF "scoreboard" \in flags /\ c.SCOREBOARD_ENABLED
                 THEN {"scoreboard"} ELSE {})

\* _maybe_reload_config finds a newer modification time
Reloaded == file_state # "missing" /\ file_mtime > _cfg_mtime

\* the flags that reload returns
ReloadFlags ==
    IF Reloaded THEN changed(cfg, _atomic_load_json(cfg_file, file_state))
    ELSE {}

\* panel width, the start position of a scroll cursor
PanelW == 1

\* a scrolling render branch moves the cursor left; positions left of the
\* start are not told apart, and the row outlasts the run (no wrap-around)
Scroll(x) == Max(0, x - 1)

\* the frame dimmed whatever the override mode
DimmingApplied_Always(ovMode) == TRUE

\* the frame is passed to apply_dimming_inplace (line 1775)
DimmingApplied(ovMode) == ovMode # "BRIGHT"

\* one loop iteration after the drain: score detection, config reload,
\* state transitions and the render branch (lines 1106-1599).
\* ov0 is the override after expiry, cache1 the scoreboard cache after the
\* drain, wpc1 the positions of the workers.
Body(ov0, cache1, wpc1) ==
    \E reloaded \in {Reloaded}, flags \in {ReloadFlags} :
    LET sbChange == "scoreboard" \in flags /\ ~DEMO_MODE
        mkChange == "markets" \in flags /\ ~DEMO_MODE
        x1       == IF "markets" \in flags THEN PanelW ELSE x_top
        top1     == IF reloaded /\ now > next_top_ts + HourLen
                      THEN _compute_next_hour_ts(now) ELSE next_top_ts
    IN  \E det \in {detect_score_bursts(alert_queue, last_scores, cache1,
                                        cfg.SCORE_ALERTS_ENABLED, alert_maxlen)},
           c1 \in {IF reloaded
                     THEN _apply_config(cfg, _atomic_load_json(cfg_file, file_state))
                     ELSE cfg},
           cache2 \in {IF sbChange THEN EmptyScoreboard ELSE cache1} :
        \E ov1 \in {IF "override" \in flags THEN OverrideOf(c1, now) ELSE ov0} :
        \E f1 \in {Transitions(c1, ov1.active, alert_obj,
                               [Fsm EXCEPT !.next_top_ts = top1],
                               any_live(cache2), now)} :
        \E branch \in {RenderBranch(c1, ov1.active, ov1.mode, det.queue,
                                    alert_obj, f1)} :
        \E al \in {IF branch = "alert"
                     THEN RenderAlert(c1, det.queue, alert_obj, now)
                     ELSE [queue |-> det.queue, alert |-> alert_obj]},
           f2 \in {IF branch = "preroll" THEN RenderPreroll(f1, now) ELSE f1} :
        /\ cfg' = c1
        /\ _cfg_mtime' = IF reloaded THEN file_mtime ELSE _cfg_mtime
        /\ override_mode' = ov1.mode
        /\ override_active' = ov1.active
        /\ override_end_ts' = ov1.end_ts
        /\ last_scores' = det.scores
        /\ alert_queue' = al.queue
        /\ alert_obj' = al.alert
        /\ scoreboard_latest' = cache2
        /\ IF flags = {}
             THEN /\ workers' = workers
                  /\ worker_gen' = worker_gen
                  /\ market_args' = market_args
                  /\ wpc' = wpc1
                  /\ wmsgs' = wmsgs
             ELSE /\ workers' = [w \in WorkerNames |->
                         IF w = "market" /\ mkChange THEN "alive"
                         ELSE IF w = "scoreboard" /\ sbChange
                              THEN RestartScoreboard(c1, workers)[w]
                         ELSE workers[w]]
                  /\ worker_gen' = [w \in WorkerNames |->
                         IF w \in Restarted(c1, flags)
                           THEN worker_gen[w] + 1 ELSE worker_gen[w]]
                  /\ market_args' = IF mkChange THEN ALL_TICKERS(c1)
                                     ELSE market_args
                  /\ wpc' = [w \in WorkerNames |->
                         IF (w = "market" /\ mkChange)
                            \/ (w = "scoreboard" /\ sbChange)
                           THEN "ready" ELSE wpc1[w]]
                  /\ wmsgs' = [w \in WorkerNames |->
                         IF (w = "market" /\ mkChange)
                            \/ (w = "scoreboard" /\ sbChange)
                           THEN <<>> ELSE wmsgs[w]]
        /\ x_top' = IF branch \in {"preroll", "ticker"} THEN Scroll(x1) ELSE x1
        /\ frame_dimmed' = DimmingApplied(ov1.mode)
        /\ state' = f2.state
        /\ preroll_reason' = f2.preroll_reason
        /\ state_enter_ts' = f2.state_enter_ts
        /\ next_top_ts' = f2.next_top_ts
        /\ market_event_shown_today' = f2.shown
        /\ fire_log' = f2.log
        /\ render_mode' = branch
        /\ render_state' = f1.state
        /\ loop_count' = (loop_count + 1) % 2

\* poll_queues_nonblock drains the queue of worker w
Drains(w) == ~DEMO_MODE /\ (w = "scoreboard" => cfg.SCOREBOARD_ENABLED)

\* a worker sleeps for its cadence between two poll cycles, which outlasts an
\* iteration of the main loop: its next cycle starts after the main loop has
\* drained its queue once more
Woken(w, drained) == IF drained /\ wpc[w] = "sleep" THEN "ready" ELSE wpc[w]

\* poll_queues_nonblock as one step: every queue is drained to empty and each
\* message folded into its cache (the scoreboard queue only when enabled)
DrainedQueues(qs) ==
    [w \in WorkerNames |->
        IF Drains(w) THEN <<>> ELSE qs[w]]

\* a whole iteration of the main loop, taken as one step, the queues holding
\* qs when poll_queues_nonblock runs
TickOn(qs) ==
    /\ pc = "loop"
    /\ ~_shutdown_requested
    /\ q' = DrainedQueues(qs)
    /\ market_cache' = IF DEMO_MODE THEN market_cache
                       ELSE FoldAllTyped(market_cache, qs["market"], "market")
    /\ weather_cache' = IF DEMO_MODE THEN weather_cache
                        ELSE FoldAllTyped(weather_cache, qs["weather"], "weather")
    /\ Body(Expire(Override, now),
            IF DEMO_MODE \/ ~cfg.SCOREBOARD_ENABLED THEN scoreboard_latest
            ELSE FoldAllScoreboard(scoreboard_latest, qs["scoreboard"]),
            [w \in WorkerNames |-> Woken(w, Drains(w))])
    /\ UNCHANGED <<now, cfg_file, file_mtime, file_state, pc,
                   _shutdown_requested, x_maint, alert_maxlen, pushed, last_pub,
                   status_doc, dimVars>>

\* (the queues hold what the workers of this program put, which PollRaises
\* never rejects)
\* --- the same iteration in steps, one queue operation at a time
\* top of the loop: the shutdown test and the override expiry
LoopTop ==
    /\ pc = "loop"
    /\ IF _shutdown_requested
         THEN /\ pc' = "teardown"
              /\ UNCHANGED ovVars
         ELSE /\ pc' = "drain_market"
              /\ LET ov == Expire(Override, now)
                 IN  /\ override_mode' = ov.mode
                     /\ override_active' = ov.active
                     /\ override_end_ts' = ov.end_ts
    /\ UNCHANGED <<envVars, dimVars, cfgVars, fsmVars, alertVars, cacheVars, workerVars,
                   _shutdown_requested, workers, x_maint, render_mode, render_state,
                   loop_count, procVars>>

\* the position after the drain loop of queue w
AfterDrain(w) ==
    IF w = "market" THEN "drain_weather"
    ELSE IF w = "weather" THEN "drain_scoreboard"
    ELSE "body"

\* one get_nowait of a drain loop of poll_queues_nonblock: a message is
\* folded into the cache, queue_std.Empty ends the loop; any other exception
\* leaves run() through its finally block
DrainStep(w) ==
    /\ pc = "drain_" \o w
    /\ IF ~Drains(w) \/ q[w] = <<>>
         THEN /\ pc' = AfterDrain(w)
              /\ wpc' = [wpc EXCEPT ![w] = Woken(w, Drains(w))]
              /\ UNCHANGED <<q, cacheVars>>
         ELSE IF PollRaises(Head(q[w]), w)
         THEN /\ pc' = "teardown"
              /\ wpc' = wpc
              /\ q' = [q EXCEPT ![w] = Tail(q[w])]
              /\ UNCHANGED cacheVars
         ELSE /\ pc' = pc
              /\ wpc' = wpc
              /\ q' = [q EXCEPT ![w] = Tail(q[w])]
              /\ market_cache' = IF w = "market"
                    THEN FoldTyped(market_cache, Head(q[w]), "market")
                    ELSE market_cache
              /\ weather_cache' = IF w = "weather"
                    THEN FoldTyped(weather_cache, Head(q[w]), "weather")
                    ELSE weather_cache
              /\ scoreboard_latest' = IF w = "scoreboard"
                    THEN FoldScoreboard(scoreboard_latest, Head(q[w]))
                    ELSE scoreboard_latest
    /\ UNCHANGED <<envVars, dimVars, cfgVars, ovVars, fsmVars, alertVars, wmsgs,
                   last_pub, status_doc, _shutdown_requested, workers, x_maint,
                   render_mode, render_state, loop_count, procVars>>

\* the rest of the iteration after the drain
BodyStep ==
    /\ pc = "body"
    /\ pc' = "loop"
    /\ Body(Override, scoreboard_latest, wpc)
    /\ UNCHANGED <<envVars, dimVars, market_cache, weather_cache, q, last_pub,
                   status_doc, _shutdown_requested, x_maint, alert_maxlen, pushed>>

\* run_maintenance_loop: one iteration of its while True
MaintIter ==
    /\ pc = "maint"
    /\ x_maint' = IF x_maint = 0 THEN MaxMaintX ELSE x_maint - 1
    /\ render_mode' = "maint"
    /\ UNCHANGED <<render_state, loop_count>>
    /\ UNCHANGED <<envVars, dimVars, cfgVars, ovVars, fsmVars, alertVars, cacheVars,
                   workerVars, pc, _shutdown_requested, workers, procVars>>

\* _signal_handler: SIGTERM or SIGINT arrives
Signal ==
    /\ pc # "start"
    /\ pc # "done"
    /\ ~_shutdown_requested
    /\ _shutdown_requested' = TRUE
    /\ UNCHANGED <<envVars, dimVars, cfgVars, ovVars, fsmVars, alertVars, cacheVars,
                   workerVars, pc, workers, x_maint, render_mode, render_state,
                   loop_count, procVars>>

\* teardown, first loop: terminate() to every live worker (lines 1811-1816)
TeardownTerminate ==
    /\ pc = "teardown"
    /\ pc' = "teardown_join"
    /\ workers' = [w \in WorkerNames |->
                     IF workers[w] = "alive" THEN "terminating" ELSE workers[w]]
    /\ UNCHANGED <<envVars, dimVars, cfgVars, ovVars, fsmVars, alertVars, cacheVars,
                   workerVars, _shutdown_requested, x_maint, render_mode, render_state,
                   loop_count, procVars>>

\* a worker that was sent SIGTERM exits
WorkerExit(w) ==
    /\ workers[w] = "terminating"
    /\ workers' = [workers EXCEPT ![w] = "dead"]
    /\ UNCHANGED <<envVars, dimVars, cfgVars, ovVars, fsmVars, alertVars, cacheVars,
                   workerVars, pc, _shutdown_requested, x_maint, render_mode, render_state,
                   loop_count, procVars>>

\* teardown, second loop: join, then kill what is still alive (lines 1822-1833)
TeardownJoinKill ==
    /\ pc = "teardown_join"
    /\ pc' = "done"
    /\ workers' = [w \in WorkerNames |->
                     IF workers[w] = "terminating" THEN "dead" ELSE workers[w]]
    /\ UNCHANGED <<envVars, dimVars, cfgVars, ovVars, fsmVars, alertVars, cacheVars,
                   workerVars, _shutdown_requested, x_maint, render_mode, render_state,
                   loop_count, procVars>>

\* ------------------------------------------------------------- environment
\* the wall clock advances by one unit; the process is started at time 0
Advance ==
    /\ pc # "start"
    /\ now < MaxTime
    /\ now' = now + 1
    /\ UNCHANGED <<score_now, cfg_file, file_mtime, file_state, dimVars, cfgVars,
                   ovVars, fsmVars,
                   alertVars, cacheVars, workerVars, mainVars>>

\* the editor writes again once the main loop has picked up its previous
\* write, at most n times
CanSave(n) == file_mtime < n /\ (file_state # "missing" => file_mtime = _cfg_mtime)

\* atomic_save_cfg: the editor replaces config.json by doc
atomic_save_cfg(doc) ==
    /\ cfg_file' = doc
    /\ file_state' = "ok"
    /\ file_mtime' = file_mtime + 1
    /\ UNCHANGED <<now, score_now, dim_args, dim_scale, fnVars, cfgVars, ovVars, fsmVars,
                   alertVars, cacheVars, workerVars, mainVars>>

\* load_cfg of the editor: the document, {} when the file cannot be read or
\* parsed
load_cfg == IF file_state = "ok" THEN cfg_file ELSE EmptyDoc

\* load_cfg()[key] = value for every key of upd, as the editor's handlers do
WithKeys(doc, upd) ==
    [k \in DOMAIN doc \cup DOMAIN upd |->
        IF k \in DOMAIN upd THEN upd[k] ELSE doc[k]]

\* apply_override: the editor writes mode and duration together
apply_override(m, d) ==
    /\ atomic_save_cfg(WithKeys(load_cfg, [OVERRIDE_MODE |-> m,
                                           OVERRIDE_DURATION_MIN |-> d]))
    /\ UNCHANGED reply

\* the documents a settings save or the raw JSON editor writes: one setting
\* toggled, or one minute of bright mode with the scoreboard switched off
SavedDocs(d) ==
    { [d EXCEPT !.SCOREBOARD_PRECEDENCE = IF @ = "normal" THEN "force" ELSE "normal"],
      [d EXCEPT !.SCORE_ALERTS_ENABLED = ~@],
      [d EXCEPT !.OVERRIDE_MODE = "BRIGHT", !.OVERRIDE_DURATION_MIN = 1,
                !.SCOREBOARD_ENABLED = FALSE] }

\* ------------------------------------------------------------------ workers
Capacity(w) ==
    IF w = "market" THEN MQ_MAXSIZE
    ELSE IF w = "weather" THEN WQ_MAXSIZE
    ELSE SBQ_MAXSIZE

Running(w) == workers[w] \in {"alive", "terminating"}

StatusMsg == Msg("scoreboard_status", "", FALSE, 0)

\* the payload lists a scoreboard poll cycle can build when the provider
\* reports home score sc: NFL before NHL, a league without games contributes
\* nothing
NhlSnaps(sc) == {Msg("scoreboard", "NHL", lv, sc) : lv \in BOOLEAN}
NflSnaps == {Msg("scoreboard", "NFL", FALSE, 0)}
FeedsNhl(sc) == {<<>>} \cup {<<m>> : m \in NhlSnaps(sc)}
FeedsAll(sc) == FeedsNhl(sc) \cup {<<m>> : m \in NflSnaps}
                     \cup {<<n, m>> : n \in NflSnaps, m \in NhlSnaps(sc)}

\* what a worker publishes in one poll cycle, the scoreboard worker within
\* the feeds given
Published(w, feeds) ==
    IF w = "market" THEN {<<Msg("market", "", FALSE, v)>> : v \in 0..1}
    ELSE IF w = "weather" THEN {<<Msg("weather", "", a, 0)>> : a \in BOOLEAN}
    ELSE {f \o <<StatusMsg>> : f \in feeds}

\* a worker wakes up, fetches, and has its messages of this cycle to publish;
\* the score the provider reports never decreases
Fetch(w, both) ==
    /\ Running(w)
    /\ wpc[w] = "ready"
    /\ \E sc \in {score_now, Min(score_now + 1, MaxScore)} :
          /\ score_now' = IF w = "scoreboard" THEN sc ELSE score_now
          /\ \E ms \in Published(w, IF both THEN FeedsAll(sc) ELSE FeedsNhl(sc)) :
                wmsgs' = [wmsgs EXCEPT ![w] = ms]
    /\ wpc' = [wpc EXCEPT ![w] = "drain"]
    /\ status_doc' = [status_doc EXCEPT ![w] = "ok"]
    /\ UNCHANGED <<now, cfg_file, file_mtime, file_state, dimVars, cfgVars,
                   ovVars, fsmVars, alertVars, cacheVars, q, last_pub, mainVars>>

\* put_latest, first loop: one get_nowait; queue_std.Empty ends the loop
PutLatestDrain(w) ==
    /\ Running(w)
    /\ wpc[w] = "drain"
    /\ IF q[w] = <<>>
         THEN /\ wpc' = [wpc EXCEPT ![w] = "put"]
              /\ q' = q
         ELSE /\ wpc' = wpc
              /\ q' = [q EXCEPT ![w] = Tail(q[w])]
    /\ UNCHANGED <<envVars, dimVars, cfgVars, ovVars, fsmVars, alertVars, cacheVars,
                   wmsgs, last_pub, status_doc, mainVars>>

\* put_nowait on a queue of capacity cap; on queue_std.Full one get_nowait
\* and a second put_nowait, which gives up when the queue is full again
put_nowait_retry(queue, cap, m) ==
    IF Len(queue) < cap THEN Append(queue, m)
    ELSE LET dropped == IF queue = <<>> THEN queue ELSE Tail(queue)
         IN  IF Len(dropped) < cap THEN Append(dropped, m) ELSE dropped

\* put_latest, the push of the head message of this cycle
PutLatestPut(w) ==
    /\ Running(w)
    /\ wpc[w] = "put"
    /\ LET m == Head(wmsgs[w])
       IN  /\ q' = [q EXCEPT ![w] = put_nowait_retry(q[w], Capacity(w), m)]
           /\ last_pub' = IF m.type = "scoreboard_status" THEN last_pub
                          ELSE [last_pub EXCEPT ![w] = Some(m)]
    /\ wmsgs' = [wmsgs EXCEPT ![w] = Tail(wmsgs[w])]
    /\ wpc' = [wpc EXCEPT ![w] = IF Len(wmsgs[w]) > 1 THEN "drain" ELSE "sleep"]
    /\ UNCHANGED <<envVars, dimVars, cfgVars, ovVars, fsmVars, alertVars, cacheVars,
                   status_doc, mainVars>>

\* ------------------------------------------------- the alert queue by itself
\* _push_alert applied to the next alert, numbered by its score
PushAlert ==
    /\ pc = "loop"
    /\ pushed < MaxPushes
    /\ pushed' = pushed + 1
    /\ \E lg \in LeagueSet :
          alert_queue' = _push_alert(alert_queue, alert_maxlen,
                                     [league |-> lg, score |-> pushed + 1])
    /\ UNCHANGED <<envVars, dimVars, cfgVars, ovVars, fsmVars, cacheVars, workerVars,
                   mainVars, alert_maxlen, alert_obj, last_scores>>

\* the render branch takes the oldest queued alert (line 1467)
PopAlert ==
    /\ pc = "loop"
    /\ alert_queue # <<>>
    /\ alert_queue' = Tail(alert_queue)
    /\ UNCHANGED <<envVars, dimVars, cfgVars, ovVars, fsmVars, cacheVars, workerVars,
                   mainVars, alert_maxlen, alert_obj, last_scores, pushed>>

\* ------------------------------------------------------------ specifications
\* the process before run() is called, config.json holding doc; the
\* brightness inputs are left to the specification
\* config.json as the worker restarts and the mirror of rendering.py read
\* it: a revision per worker category, and the values of three keys
RevDoc(en) ==
    [markets |-> 0, weather |-> 0, scoreboard |-> 0, enabled |-> en,
     CLOCK_24H |-> TRUE, QUICK_DIM_PCT |-> 0, saves |-> 0]

\* the mirrored settings of a document
Mirrored(doc) ==
    [CLOCK_24H |-> doc.CLOCK_24H, QUICK_DIM_PCT |-> doc.QUICK_DIM_PCT]

\* the worker processes before run() starts them, config.json enabling the
\* scoreboard or not
RestartInit(en) ==
    /\ rpc = "start"
    /\ rfile = RevDoc(en)
    /\ rmem = RevDoc(TRUE)
    /\ procs = [w \in WorkerNames |-> {}]
    /\ handles = [w \in WorkerNames |-> 0]
    /\ nstarted = [w \in WorkerNames |-> 0]
    /\ sbq_by = <<>>
    /\ cache_by = {}
    /\ rendering = Mirrored(RevDoc(TRUE))

\* status_data["workers"]: the number of the record of each worker, 0 for
\* a worker without a record
NoRecords == [w \in WorkerNames |-> 0]

\* a file that does not exist, a file holding a document, and a file whose
\* bytes are no JSON document
Absent == [state |-> "absent", workers |-> NoRecords]
StatusFile(doc) == [state |-> "ok", workers |-> doc]
Torn == [state |-> "torn", workers |-> NoRecords]

\* ticker_status.json before any worker has written its record
StatusInit ==
    /\ st_pc = [w \in WorkerNames |-> "idle"]
    /\ st_data = [w \in WorkerNames |-> NoRecords]
    /\ status_file = Absent
    /\ status_tmp = Absent
    /\ m_read = 0

InitBanner(doc, t, colors, banner) ==
    /\ RestartInit(TRUE)
    /\ StatusInit
    /\ now = t
    /\ _SCORE_FLASH_COLORS = colors
    /\ score_now = 0
    /\ cfg_file = doc
    /\ file_mtime = 0
    /\ file_state = "ok"
    /\ pc = "start"
    /\ cfg = Defaults
    /\ _cfg_mtime = 0
    /\ _shutdown_requested = FALSE
    /\ override_mode = "OFF"
    /\ override_active = FALSE
    /\ override_end_ts = NoneTs
    /\ state = STATE_TICKER
    /\ preroll_reason = "hour"
    /\ state_enter_ts = t
    /\ next_top_ts = _compute_next_hour_ts(t)
    /\ market_event_shown_today = {}
    /\ alert_queue = <<>>
    /\ alert_maxlen = 1
    /\ alert_obj = None
    /\ last_scores = [l \in LeagueSet |-> None]
    /\ market_cache = None
    /\ weather_cache = None
    /\ scoreboard_latest = EmptyScoreboard
    /\ workers = [w \in WorkerNames |-> "None"]
    /\ worker_gen = [w \in WorkerNames |-> 0]
    /\ market_args = {}
    /\ x_top = PanelW
    /\ frame_dimmed = FALSE
    /\ status_doc = [w \in WorkerNames |-> "none"]
    /\ reply = "none"
    /\ x_maint = MaxMaintX
    /\ render_mode = "none"
    /\ render_state = STATE_TICKER
    /\ loop_count = 0
    /\ wpc = [w \in WorkerNames |-> "ready"]
    /\ wmsgs = [w \in WorkerNames |-> <<>>]
    /\ q = [w \in WorkerNames |-> <<>>]
    /\ fire_log = <<>>
    /\ last_pub = [w \in WorkerNames |-> None]
    /\ pushed = 0
    /\ x_single = MaxW * Quarter
    /\ completed_single = 0
    /\ weather_scroll_shown = FALSE
    /\ show_msg_single = FALSE
    /\ market_open_scrolls_left = 0
    /\ market_open_scroll_date = None
    /\ parts = <<>>
    /\ row_mode = "none"
    /\ weather_banner = banner
    /\ banner_in = None
    /\ game_state = "none"

\* weather_banner as run() creates it (lines 817-824)
NoBanner == [active |-> FALSE, message |-> <<>>, severity |-> ""]

InitColors(doc, t, colors) == InitBanner(doc, t, colors, NoBanner)

\* SCORE_ALERTS_FLASH_COLORS as the environment has it
DefaultFlashColors == SubSeq(<<"red", "white", "blue">>, 1, NumFlashColors)

InitProcess(doc, t) == InitColors(doc, t, DefaultFlashColors)

\* no call of time_in_range is being followed
RangeIdle == range_args = None /\ in_range = None

InitWith(doc, t) ==
    /\ InitProcess(doc, t)
    /\ dim_args = None
    /\ dim_scale = None
    /\ RangeIdle

\* the display engine: whole iterations, the clock, the editor, the
\* scoreboard worker
Init == InitWith(Defaults, 0)

Edit ==
    /\ CanSave(MaxEdits)
    /\ \E doc \in SavedDocs(cfg_file) : atomic_save_cfg(doc)
    /\ UNCHANGED reply
\* the override form: one minute of the clock override
OverrideForms == {<<"CLOCK", 1>>}
SetOverride == CanSave(MaxEdits) /\ \E f \in OverrideForms : apply_override(f[1], f[2])
\* an iteration of the main loop; the scoreboard queue holds what is left in
\* it, or the message the scoreboard worker has put since the last iteration
Tick ==
    \/ /\ TickOn(q)
       /\ UNCHANGED score_now
    \/ /\ Running("scoreboard")
       /\ \E sc \in {score_now, Min(score_now + 1, MaxScore)} :
            \E m \in NhlSnaps(sc) \cup {StatusMsg} :
               /\ score_now' = IF m = StatusMsg THEN score_now ELSE sc
               /\ TickOn([q EXCEPT !["scoreboard"] =
                              put_nowait_retry(<<>>, Capacity("scoreboard"), m)])

Next ==
    \/ Start
    \/ Tick
    \/ Advance
    \/ Edit
    \/ SetOverride

Spec == Init /\ [][Next]_vars

\* ------------------------------------------------ the queues, step by step
\* the main loop interleaved with a worker, one queue operation at a time; no
\* clock, no editor.  Each worker has its own queue and cache, so a run
\* follows the one worker that polls first.
OthersIdle(w) ==
    \A v \in WorkerNames \ {w} :
       wpc[v] = "ready" /\ q[v] = <<>> /\ last_pub[v] = None

Poll(w) == OthersIdle(w) /\ Fetch(w, TRUE)

NextQueue ==
    \/ Start
    \/ LoopTop
    \/ \E w \in WorkerNames : DrainStep(w)
    \/ BodyStep
    \/ \E w \in WorkerNames : Poll(w)
    \/ \E w \in WorkerNames : PutLatestDrain(w)
    \/ \E w \in WorkerNames : PutLatestPut(w)

SpecQueue == Init /\ [][NextQueue]_vars

\* every process keeps running: the main loop and each worker take their
\* next step
FairQueue ==
    /\ WF_vars(Start) /\ WF_vars(LoopTop) /\ WF_vars(BodyStep)
    /\ \A w \in WorkerNames :
          /\ WF_vars(DrainStep(w))
          /\ WF_vars(Poll(w))
          /\ WF_vars(PutLatestDrain(w))
          /\ WF_vars(PutLatestPut(w))

SpecQueueFair == SpecQueue /\ FairQueue

\* ------------------------------------------------- the override controller
\* the override form and the quick actions: a timed and an untimed clock, a
\* timed bright mode, and the clearing of the override
OverrideRequests == {<<"CLOCK", 1>>, <<"CLOCK", 0>>, <<"BRIGHT", 1>>, <<"OFF", 0>>}

RequestOverride ==
    /\ CanSave(MaxWrites)
    /\ \E f \in OverrideRequests : apply_override(f[1], f[2])

\* an iteration of the main loop with nothing new in the queues
QuietTick == TickOn(q) /\ UNCHANGED score_now

\* config.json as found at startup: any of the override requests
InitOverride ==
    \E f \in OverrideRequests :
       InitWith([Defaults EXCEPT !.OVERRIDE_MODE = f[1],
                                 !.OVERRIDE_DURATION_MIN = f[2]], 0)

NextOverride ==
    \/ Start
    \/ QuietTick
    \/ Advance
    \/ RequestOverride

SpecOverride == InitOverride /\ [][NextOverride]_vars

\* -------------------------------------------------------- the config reload
\* the body of a write request to the raw JSON form or the JSON API: text
\* that is not JSON, JSON that is not an object, or a JSON object
Request(kind, doc) == [kind |-> kind, doc |-> doc]

MalformedRequests ==
    {Request("malformed", EmptyDoc), Request("nonobject", EmptyDoc)}

\* the documents the operator submits: the one on file with the symbol list
\* changed, with the holdings switched on, or with both the symbol list and
\* the scoreboard precedence changed
SubmittedDocs(d) ==
    { WithKeys(d, [TICKERS_TOP |-> {"AAPL", "MSFT"}]),
      WithKeys(d, [HOLDINGS_ENABLED |-> TRUE]),
      WithKeys(d, [TICKERS_TOP |-> {"MSFT"}, SCOREBOARD_PRECEDENCE |-> "force"]) }

Requests == MalformedRequests \cup {Request("object", d) : d \in SubmittedDocs(load_cfg)}

\* a handler of the editor answers without writing
Rejected ==
    /\ reply' = "rejected"
    /\ UNCHANGED <<envVars, cfgVars, ovVars, fsmVars, alertVars, cacheVars,
                   workerVars, mainVars, dim_args, dim_scale, fnVars>>

\* raw_editor_post: json.loads of the form text; anything but an object is
\* answered with an error
raw_editor_post(r) ==
    /\ CanSave(MaxWrites)
    /\ IF r.kind = "object"
         THEN atomic_save_cfg(r.doc) /\ reply' = "saved"
         ELSE Rejected

\* api_set_config: get_json(silent=True) gives None for text that is not
\* JSON, and `or {}` turns that into the empty object
api_set_config(r) ==
    /\ CanSave(MaxWrites)
    /\ LET body == IF r.kind = "malformed" THEN Request("object", EmptyDoc) ELSE r
       IN  IF body.kind = "object"
             THEN atomic_save_cfg(body.doc) /\ reply' = "saved"
             ELSE Rejected

\* config.json is overwritten with bytes that do not parse
Corrupt ==
    /\ CanSave(MaxWrites)
    /\ file_state' = "corrupt"
    /\ file_mtime' = file_mtime + 1
    /\ UNCHANGED <<now, score_now, cfg_file, cfgVars, ovVars, fsmVars, alertVars,
                   cacheVars, workerVars, mainVars, dimVars>>

\* config.json is removed
Remove ==
    /\ CanSave(MaxWrites)
    /\ file_state = "ok"
    /\ file_state' = "missing"
    /\ UNCHANGED <<now, score_now, cfg_file, file_mtime, cfgVars, ovVars, fsmVars,
                   alertVars, cacheVars, workerVars, mainVars, dimVars>>

\* what the queues can hold when an iteration drains them: for each running
\* worker what was left, or the message it has put since the last iteration
WorkerPuts ==
    {[w \in WorkerNames |-> IF w \in ws THEN <<put[w]>> ELSE q[w]] :
        ws \in SUBSET {w \in WorkerNames : Running(w)},
        put \in {[market |-> Msg("market", "", FALSE, 1),
                  weather |-> Msg("weather", "", TRUE, 0),
                  scoreboard |-> Msg("scoreboard", "NHL", TRUE, score_now)]}}

\* an iteration of the main loop
ReloadTick == \E qs \in WorkerPuts : TickOn(qs) /\ UNCHANGED score_now

\* whole iterations of the main loop, the editor and the file system
NextReload ==
    \/ Start
    \/ ReloadTick
    \/ \E r \in Requests : raw_editor_post(r)
    \/ \E r \in Requests : api_set_config(r)
    \/ Corrupt
    \/ Remove

SpecReload == Init /\ [][NextReload]_vars

\* ------------------------------------------------- a failing data source
\* the status a worker writes to its record of the status document after a
\* cycle in which its data source could not be reached or parsed: the market
\* worker counts every symbol as failed; fetch_weather_warning and the ESPN
\* fetchers catch the exception themselves and return "nothing found"
FailedStatus(w) ==
    IF w = "market" THEN "error"
    ELSE IF w = "weather" THEN "ok"
    ELSE "idle"

\* what the worker publishes after such a cycle: a snapshot without data, no
\* warning, no games
FailedPublished(w) ==
    IF w = "market" THEN <<Msg("market", "", FALSE, 0)>>
    ELSE IF w = "weather" THEN <<Msg("weather", "", FALSE, 0)>>
    ELSE <<StatusMsg>>

\* a poll cycle of worker w whose data source fails
PollFail(w) ==
    /\ OthersIdle(w)
    /\ Running(w)
    /\ wpc[w] = "ready"
    /\ wmsgs' = [wmsgs EXCEPT ![w] = FailedPublished(w)]
    /\ wpc' = [wpc EXCEPT ![w] = "drain"]
    /\ status_doc' = [status_doc EXCEPT ![w] = FailedStatus(w)]
    /\ UNCHANGED <<envVars, dimVars, cfgVars, ovVars, fsmVars, alertVars, cacheVars,
                   q, last_pub, mainVars>>

\* the queue specification with data sources that can fail
NextWorker ==
    \/ Start
    \/ LoopTop
    \/ \E w \in WorkerNames : DrainStep(w)
    \/ BodyStep
    \/ \E w \in WorkerNames : Poll(w)
    \/ \E w \in WorkerNames : PollFail(w)
    \/ \E w \in WorkerNames : PutLatestDrain(w)
    \/ \E w \in WorkerNames : PutLatestPut(w)

SpecWorker == Init /\ [][NextWorker]_vars

\* ---------------------------------------------------------- the dim scale
\* a scale is held in percent: 0.01 is 1, 1.0 is 100; the percentages of the
\* configuration are whole numbers
\* max(0.01, min(1.0, pct / 100.0)) without its lower limit
ClampPct_NoFloor(pct) == Min(100, pct)

\* max(0.01, min(1.0, pct / 100.0))
ClampPct(pct) == Max(1, Min(100, pct))

\* an "HH:MM" setting is held as <<hh, mm>>, text that does not split into
\* two numbers as <<>>; parse_hhmm clamps the hour to 0..23 and the minute to
\* 0..59 and gives (0, 0) for what it cannot parse
parse_hhmm(str) ==
    IF Len(str) # 2 THEN <<0, 0>>
    ELSE <<Max(0, Min(23, str[1])), Max(0, Min(59, str[2]))>>

\* the order of datetime.time values
MinuteOfDay(hm) == hm[1] * 60 + hm[2]

\* time_in_range with the end of the range included
time_in_range_Closed(now_t, start_t, end_t) ==
    LET n == MinuteOfDay(now_t)
        st == MinuteOfDay(start_t)
        en == MinuteOfDay(end_t)
    IN  \/ st <= en /\ st <= n /\ n <= en
        \/ st > en /\ (n >= st \/ n <= en)

\* time_in_range without the range that wraps past midnight
time_in_range_NoWrap(now_t, start_t, end_t) ==
    MinuteOfDay(start_t) <= MinuteOfDay(now_t) /\ MinuteOfDay(now_t) < MinuteOfDay(end_t)

\* time_in_range
time_in_range(now_t, start_t, end_t) ==
    LET n == MinuteOfDay(now_t)
        st == MinuteOfDay(start_t)
        en == MinuteOfDay(end_t)
    IN  \/ st <= en /\ st <= n /\ n < en
        \/ st > en /\ (n >= st \/ n < en)

\* current_dim_scale, on the settings and the time of day in a
current_dim_scale(a) ==
    IF a.QUICK_DIM_PCT > 0 THEN ClampPct(a.QUICK_DIM_PCT)
    ELSE IF a.NIGHT_MODE_ENABLED
              /\ time_in_range(a.now_t, parse_hhmm(a.NIGHT_MODE_START),
                               parse_hhmm(a.NIGHT_MODE_END))
         THEN ClampPct(a.NIGHT_MODE_DIM_PCT)
    ELSE 100

\* the percentages tried: negative, 0, the smallest, the default of the night
\* mode, full, and more than full
Pcts == {MinPct, 0, 1, 30, 100, MaxPct}

\* the HH:MM settings tried: evening, morning, an hour and a minute out of
\* range, text that is no time
HhmmSettings == {<<22, 0>>, <<7, 0>>, <<25, 0>>, <<7, 61>>, <<>>}

\* the times of day tried
TimesOfDay == {<<0, 0>>, <<6, 59>>, <<7, 0>>, <<12, 0>>, <<23, 0>>}

DimInputs ==
    [QUICK_DIM_PCT : Pcts, NIGHT_MODE_ENABLED : BOOLEAN,
     NIGHT_MODE_START : HhmmSettings, NIGHT_MODE_END : HhmmSettings,
     NIGHT_MODE_DIM_PCT : Pcts, now_t : TimesOfDay]

InitDim ==
    /\ InitProcess(Defaults, 0)
    /\ RangeIdle
    /\ dim_args \in {Some(a) : a \in DimInputs}
    /\ dim_scale = None

\* the frame is about to be dimmed: current_dim_scale(now_dt)
Resolve ==
    /\ dim_scale = None
    /\ dim_scale' = Some(current_dim_scale(dim_args[1]))
    /\ UNCHANGED <<envVars, dim_args, reply, fnVars, cfgVars, ovVars, fsmVars, alertVars,
                   cacheVars, workerVars, mainVars>>

NextDim == Resolve

SpecDim == InitDim /\ [][NextDim]_vars

\* ------------------------------------------------------- a game that ends
\* the followed game starts, and later ends
GameStarts ==
    /\ game_state = "none"
    /\ game_state' = "LIVE"
    /\ UNCHANGED <<envVars, dim_args, dim_scale, reply, range_args, in_range,
                   x_single, bannerVars, _SCORE_FLASH_COLORS, rowVars, restartVars,
                   statusVars,
                   cfgVars, ovVars, fsmVars, alertVars,
                   cacheVars, workerVars, mainVars>>

GameEnds ==
    /\ game_state = "LIVE"
    /\ game_state' = "FINAL"
    /\ UNCHANGED <<envVars, dim_args, dim_scale, reply, range_args, in_range,
                   x_single, bannerVars, _SCORE_FLASH_COLORS, rowVars, restartVars,
                   statusVars,
                   cfgVars, ovVars, fsmVars, alertVars,
                   cacheVars, workerVars, mainVars>>

\* the NHL payload of a scoreboard poll cycle: _order_and_trim_games keeps
\* LIVE and PREGAME games only, and a league whose list is empty gets no
\* payload.  While the game is LIVE the payload shows it; before and after,
\* another game inside the pregame window gives a payload without a LIVE
\* game, and no such game gives no payload at all.
GamePayloads ==
    IF game_state = "LIVE" THEN {<<Msg("scoreboard", "NHL", TRUE, score_now)>>}
    ELSE {<<>>, <<Msg("scoreboard", "NHL", FALSE, score_now)>>}

\* a poll cycle of the scoreboard worker against that provider
PollGame ==
    /\ Running("scoreboard")
    /\ wpc["scoreboard"] = "ready"
    /\ \E f \in GamePayloads :
          wmsgs' = [wmsgs EXCEPT !["scoreboard"] = f \o <<StatusMsg>>]
    /\ wpc' = [wpc EXCEPT !["scoreboard"] = "drain"]
    /\ status_doc' = [status_doc EXCEPT !["scoreboard"] = "ok"]
    /\ UNCHANGED <<envVars, dimVars, cfgVars, ovVars, fsmVars, alertVars, cacheVars,
                   q, last_pub, mainVars>>

\* the main loop and the scoreboard worker in steps, the provider's game
NextGame ==
    \/ Start
    \/ LoopTop
    \/ \E w \in WorkerNames : DrainStep(w)
    \/ BodyStep
    \/ PollGame
    \/ PutLatestDrain("scoreboard")
    \/ PutLatestPut("scoreboard")
    \/ GameStarts
    \/ GameEnds

SpecGame == Init /\ [][NextGame]_vars

\* the main loop and the worker keep running
FairGame ==
    /\ WF_vars(Start) /\ WF_vars(LoopTop) /\ WF_vars(BodyStep)
    /\ \A w \in WorkerNames : WF_vars(DrainStep(w))
    /\ WF_vars(PollGame)
    /\ WF_vars(PutLatestDrain("scoreboard"))
    /\ WF_vars(PutLatestPut("scoreboard"))

SpecGameFair == SpecGame /\ FairGame

\* ------------------------------------------------- the single-row scroll
\* math.ceil of a over b, b positive
CeilDiv(a, b) == -((-a) \div b)

\* _sp = lambda x: math.ceil(x - 0.5), on a position in quarter pixels
_sp(x) == CeilDiv(x - Quarter \div 2, Quarter)

\* the lap test taken as soon as the row starts to leave the panel
LapDone_AtEdge(x, total_w) == x < 0

\* `if x_single < -total_w`: the whole row has left the panel on the left
LapDone(x, total_w) == x < -total_w

\* `x_single -= pps_single_current * dt` and the lap test after it, the row
\* travelling d quarter pixels in this frame
ScrollAdvance(d) ==
    /\ pc = "loop"
    /\ LET x1 == x_single - d
       IN  x_single' = IF LapDone(x1, MaxRowW * Quarter) THEN MaxW * Quarter ELSE x1
    /\ UNCHANGED <<envVars, dim_args, dim_scale, reply, range_args, in_range,
                   bannerVars, game_state, _SCORE_FLASH_COLORS, rowVars, restartVars,
                   statusVars,
                   cfgVars, ovVars, fsmVars, alertVars,
                   cacheVars, workerVars, mainVars>>

\* the frames of the single-row layout
NextScroll ==
    \/ Start
    \/ \E d \in 0..MaxStep : ScrollAdvance(d)

SpecScroll == Init /\ [][NextScroll]_vars

\* ----------------------------------------------------- the night window
\* the times of day time_in_range is tried with, as <<hour, minute>>
RangeTimes == {<<0, 0>>, <<6, 59>>, <<7, 0>>, <<12, 0>>, <<22, 0>>, <<23, 0>>, <<23, 59>>}

RangeInputs == [now_t : RangeTimes, start_t : RangeTimes, end_t : RangeTimes]

InitRange ==
    /\ InitProcess(Defaults, 0)
    /\ dim_args = None
    /\ dim_scale = None
    /\ range_args \in {Some(a) : a \in RangeInputs}
    /\ in_range = None

\* time_in_range(now_dt.time(), dtime(sh, sm), dtime(eh, em))
InRange ==
    /\ in_range = None
    /\ LET a == range_args[1]
       IN  in_range' = Some(time_in_range(a.now_t, a.start_t, a.end_t))
    /\ UNCHANGED <<envVars, dim_args, dim_scale, reply, range_args, x_single,
                   bannerVars, game_state, _SCORE_FLASH_COLORS, rowVars, restartVars,
                   statusVars,
                   cfgVars, ovVars, fsmVars, alertVars,
                   cacheVars, workerVars, mainVars>>

NextRange == InRange

SpecRange == InitRange /\ [][NextRange]_vars

\* ------------------------------------------------ the drain, any message
\* the malformed messages a queue can be handed: not a dict, the queue's
\* type without a payload, no type, a type the drain does not know
MalformedMsgs(w) ==
    { NotAMapping,
      [type |-> w],
      [league |-> "", live |-> FALSE, score |-> 0],
      Msg("bogus", "", FALSE, 0) }

WellFormedMsgs(w) ==
    IF w = "scoreboard" THEN {Msg("scoreboard", "NHL", FALSE, 0)}
    ELSE {Msg(w, "", FALSE, 1)}

\* some producer puts a message into queue w, one queue being in use at a
\* time and holding at most MaxQueued messages
PutAny(w) ==
    /\ pc \in {"loop", "drain_market", "drain_weather", "drain_scoreboard", "body"}
    /\ \A v \in WorkerNames \ {w} : q[v] = <<>>
    /\ Len(q[w]) < MaxQueued
    /\ \E m \in MalformedMsgs(w) \cup WellFormedMsgs(w) :
          q' = [q EXCEPT ![w] = Append(q[w], m)]
    /\ UNCHANGED <<envVars, dimVars, cfgVars, ovVars, fsmVars, alertVars, cacheVars,
                   wpc, wmsgs, last_pub, status_doc, mainVars>>

NextDrain ==
    \/ Start
    \/ LoopTop
    \/ \E w \in WorkerNames : DrainStep(w)
    \/ BodyStep
    \/ \E w \in WorkerNames : PutAny(w)

SpecDrain == Init /\ [][NextDrain]_vars

\* ------------------------------------------------------ the alert queue
\* SCORE_ALERTS_QUEUE_MAX as configured at startup
QueueMaxValues == {0, 2, 4}

InitPush ==
    \E n \in QueueMaxValues :
       InitWith([Defaults EXCEPT !.SCORE_ALERTS_QUEUE_MAX = n], 0)

NextPush ==
    \/ Start
    \/ PushAlert
    \/ PopAlert

SpecPush == InitPush /\ [][NextPush]_vars

\* ------------------------------------------------------------- shutdown
\* started with or without MAINTENANCE_MODE
InitShutdown ==
    \E mm \in BOOLEAN : InitWith([Defaults EXCEPT !.MAINTENANCE_MODE = mm], 0)

NextShutdown ==
    \/ Start
    \/ Signal
    \/ MaintIter
    \/ LoopTop
    \/ \E w \in WorkerNames : DrainStep(w)
    \/ BodyStep
    \/ TeardownTerminate
    \/ \E w \in WorkerNames : WorkerExit(w)
    \/ TeardownJoinKill
    \/ \E w \in WorkerNames : Poll(w)
    \/ \E w \in WorkerNames : PutLatestDrain(w)
    \/ \E w \in WorkerNames : PutLatestPut(w)

SpecShutdown == InitShutdown /\ [][NextShutdown]_vars

\* ============================================================ DisplayFSM
\* the step is an iteration of the main loop (loop_count += 1, line 1104)
Iteration == loop_count' # loop_count

\* an override other than BRIGHT is in force for the iteration
OverrideForced == override_active /\ override_mode # "BRIGHT"
EntersScoreboard == state # STATE_SCOREBOARD /\ state' = STATE_SCOREBOARD

C2_HourPrerollPreempts ==
    [][Iteration /\ state # STATE_PREROLL /\ now >= next_top_ts
            /\ any_live(scoreboard_latest')
            /\ cfg'.SCOREBOARD_ENABLED /\ cfg'.TIME_PREROLL_ENABLED
            /\ cfg'.SCOREBOARD_PRECEDENCE = "normal"
            /\ ~override_active' /\ alert_obj = None
         => state' = STATE_PREROLL /\ preroll_reason' = "hour"]_vars

\* C3: with precedence "force", the scoreboard enabled, the override OFF and
\* no alert active, an iteration that finds the FSM in PREROLL and a LIVE
\* game cached ends in SCOREBOARD, whatever time the preroll has lasted.
C3_ForcePrecedence ==
    [][Iteration /\ state = STATE_PREROLL /\ any_live(scoreboard_latest')
            /\ cfg'.SCOREBOARD_PRECEDENCE = "force" /\ cfg'.SCOREBOARD_ENABLED
            /\ ~override_active' /\ alert_obj = None
         => state' = STATE_SCOREBOARD]_vars

\* the hour preroll of the first hour boundary has fired and the FSM is in
\* SCOREBOARD under "force" before that preroll's duration has elapsed
C3_Witness ==
    /\ state = STATE_SCOREBOARD /\ render_state = STATE_SCOREBOARD
    /\ cfg.SCOREBOARD_PRECEDENCE = "force"
    /\ any_live(scoreboard_latest)
    /\ next_top_ts = 2 * HourLen
    /\ state_enter_ts >= HourLen
    /\ now < HourLen + TIME_PREROLL_SEC

\* an alert was active or queued when the frame of the step was composed
AlertPending ==
    alert_obj # None \/ alert_obj' # None \/ alert_queue' # <<>>

\* C4 as stated: every iteration composes exactly one render mode: the
\* override when one other than BRIGHT is in force, else the alert when alerts
\* are enabled and one is active or queued, else the mode of the DisplayFSM
\* state (PREROLL, SCOREBOARD, TICKER).
C4_AsStated ==
    [][Iteration => render_mode' =
          IF OverrideForced' THEN "override"
          ELSE IF cfg'.SCORE_ALERTS_ENABLED /\ AlertPending THEN "alert"
          ELSE IF render_state' = STATE_PREROLL THEN "preroll"
          ELSE IF render_state' = STATE_SCOREBOARD THEN "scoreboard"
          ELSE "ticker"]_vars

\* C4: as above, the DisplayFSM state deciding as PREROLL, then SCOREBOARD
\* if the scoreboard is enabled, then TICKER.
C4_RenderPrecedence ==
    [][Iteration => render_mode' =
          IF OverrideForced' THEN "override"
          ELSE IF cfg'.SCORE_ALERTS_ENABLED /\ AlertPending THEN "alert"
          ELSE IF render_state' = STATE_PREROLL THEN "preroll"
          ELSE IF render_state' = STATE_SCOREBOARD /\ cfg'.SCOREBOARD_ENABLED
               THEN "scoreboard"
          ELSE "ticker"]_vars

\* an iteration composed the override frame while an alert was active
C4_Witness ==
    /\ render_mode = "override"
    /\ override_active /\ override_mode = "CLOCK"
    /\ cfg.SCORE_ALERTS_ENABLED /\ alert_obj # None

\* C5: an iteration during which the override is not OFF or a ScoreAlert is
\* active leaves the DisplayFSM state and the preroll reason unchanged.  The
\* alert is taken as active in the narrow sense of the transition gate:
\* alerts enabled and an alert object present.
C5_StateFrozen ==
    [][Iteration /\ (override_mode' # "OFF"
                \/ (cfg'.SCORE_ALERTS_ENABLED /\ alert_obj # None))
         => UNCHANGED <<state, preroll_reason>>]_vars

\* ========================================================= market events
\* C9: no (date, event type) pair fires a market-event preroll twice.
C9_AtMostOncePerDay ==
    \A i, j \in 1..Len(fire_log) : i # j => fire_log[i] # fire_log[j]

\* the FSM is back in TICKER, by an iteration, inside the window of an event
\* that has already fired today
C9_Witness ==
    /\ state = STATE_TICKER /\ render_state = STATE_TICKER
    /\ render_mode = "ticker"
    /\ cfg.TIME_PREROLL_ENABLED
    /\ now < next_top_ts
    /\ LET ann == get_market_event_announcement(now)
       IN  /\ ann.show
           /\ <<Date(now), EventType(ann.message)>> \in market_event_shown_today
           /\ fire_log # <<>>

\* ================================================================ queues
\* the cache of worker w holds the snapshot w put last
Folded(w) ==
    \/ last_pub[w] = None
    \/ w = "market" /\ market_cache = last_pub[w]
    \/ w = "weather" /\ weather_cache = last_pub[w]
    \/ w = "scoreboard" /\ scoreboard_latest[last_pub[w][1].league] = last_pub[w]

\* C6: no worker queue holds more than its capacity, and once a worker has
\* finished the pushes of a poll cycle and the main loop has then drained the
\* queue, the cache holds the snapshot pushed last.
C6_CapacityAndLatestWins ==
    \A w \in WorkerNames :
       /\ Len(q[w]) <= Capacity(w)
       /\ (wpc[w] = "ready" /\ Drains(w)) => Folded(w)

\* C7: under every interleaving, the snapshot a worker published last is
\* eventually held by its cache.
C7_LatestEventuallyFolded ==
    \A w \in WorkerNames : (last_pub[w] # None) ~> Folded(w)

\* ============================================================ alert queue
\* C8: the alert queue never holds more than its capacity, and it holds the
\* alerts pushed last, in arrival order: a push onto a full queue succeeds and
\* evicts the oldest entry.
C8_BoundedEvictOldest ==
    /\ Len(alert_queue) <= alert_maxlen
    /\ \A i \in 1..Len(alert_queue) :
          alert_queue[i].score = pushed - Len(alert_queue) + i

\* five alerts pushed into a queue of capacity 4: alerts 2 to 5 are queued
C8_Witness ==
    /\ alert_maxlen = 4
    /\ pushed = 5
    /\ [i \in 1..Len(alert_queue) |-> alert_queue[i].score] = <<2, 3, 4, 5>>

\* =============================================================== shutdown
NoWorkerAlive == \A w \in WorkerNames : workers[w] \in {"None", "dead"}

\* C10: once the shutdown flag is set, neither render loop starts another
\* iteration: the next step of the main process from the top of a loop goes
\* to the teardown; and after the teardown no worker is alive.
C10_ShutdownStopsEveryLoop ==
    [][/\ (_shutdown_requested /\ pc \in {"loop", "maint"})
            => (pc' = "teardown"
                \/ UNCHANGED <<pc, x_maint, render_mode, loop_count>>)
       /\ pc' = "done" => NoWorkerAlive']_vars

\* ====================================================== override controller
\* the override as the reload at time t computes it from the document doc
Installed(doc, t) ==
    [mode   |-> doc.OVERRIDE_MODE,
     active |-> TRUE,
     end_ts |-> IF doc.OVERRIDE_DURATION_MIN > 0
                  THEN t + doc.OVERRIDE_DURATION_MIN * OverrideMinute
                  ELSE NoneTs]

\* the iteration reloads a change of the override keys
OverrideReloaded == "override" \in ReloadFlags

\* C11: an override installed at time t with a duration d > 0 has the expiry
\* t + d; the first iteration with now >= expiry reverts it to OFF; before
\* that, and for ever when it was installed with duration 0, the override
\* stays as it is until the override keys are written again.
C11_TimedExpiry ==
    [][/\ (pc = "start" /\ pc' # "start" /\ cfg'.OVERRIDE_MODE # "OFF")
            => Override' = Installed(cfg', now)
       /\ (Iteration /\ OverrideReloaded /\ cfg'.OVERRIDE_MODE # "OFF")
            => Override' = Installed(cfg', now)
       /\ (Iteration /\ ~OverrideReloaded /\ override_active
              /\ override_end_ts # NoneTs /\ now >= override_end_ts)
            => (~override_active' /\ override_mode' = "OFF")
       /\ (pc # "start" /\ override_active
              /\ (override_end_ts = NoneTs \/ now < override_end_ts)
              /\ ~(Iteration /\ OverrideReloaded))
            => UNCHANGED ovVars]_vars

\* a one-minute clock override has run out and the override is OFF again,
\* the config still holding the request
C11_Witness ==
    /\ pc = "loop" /\ loop_count = 1
    /\ cfg.OVERRIDE_MODE = "CLOCK" /\ cfg.OVERRIDE_DURATION_MIN = 1
    /\ override_mode = "OFF" /\ ~override_active
    /\ render_mode = "ticker"

\* C12: the reload that follows an operator's write of a mode other than
\* OFF leaves the override active with that mode and the expiry now +
\* duration (none for duration 0), whatever the config held before and
\* whatever the override was.
C12_SetInstalls ==
    [][(Iteration /\ Reloaded /\ cfg_file.OVERRIDE_MODE # "OFF")
          => Override' = Installed(cfg_file, now)]_vars

\* =========================================================== config reload
\* C13: an iteration whose reload changes keys of the markets category only
\* starts a new market worker with the new symbol list and puts the scroll
\* cursor back to the right edge (from where the frame of that iteration
\* scrolls it when it composes a scrolling row); the weather and scoreboard
\* workers are left alone and the weather and scoreboard caches hold what
\* the drain of that iteration folded into them.
DrainedOnly ==
    \E qs \in WorkerPuts :
       /\ weather_cache' = FoldAllTyped(weather_cache, qs["weather"], "weather")
       /\ scoreboard_latest' = FoldAllScoreboard(scoreboard_latest, qs["scoreboard"])

C15_MalformedRejected ==
    [][(\E r \in MalformedRequests : raw_editor_post(r) \/ api_set_config(r))
          => (reply' = "rejected" /\ UNCHANGED <<cfg_file, file_state, file_mtime>>)]_vars

\* ================================================================ the drain
\* C16: a get of the drain that finds a message takes it off the queue and
\* goes on draining, whatever the message is: a well-formed message of the
\* queue's type is folded into its cache, any other message leaves the
\* caches as they are, and the main loop is not left.
WellFormed(msg, w) == IsMapping(msg) /\ TypeOf(msg) = w /\ HasPayload(msg)

C17_FailureReported ==
    [][\A w \in WorkerNames :
          PollFail(w) => /\ Running(w)
                         /\ wpc'[w] = "drain"
                         /\ status_doc'[w] = "error"]_vars

\* ================================================================= dimming
\* C18: a frame composed while the override mode is BRIGHT does not take the
\* override render branch: it is one of the frames the display composes
\* without an override.  It is not dimmed.  A frame composed under any other
\* mode, the first one after BRIGHT has ended included, is passed to the
\* dimming.
NormalBranches == {"alert", "preroll", "scoreboard", "ticker"}

C18_BrightUndimmed ==
    [][Iteration
         => IF override_mode' = "BRIGHT"
              THEN render_mode' \in NormalBranches /\ ~frame_dimmed'
              ELSE frame_dimmed']_vars

\* bright mode was requested while the display ran and is in force: the frame
\* on the panel is a ticker frame that was not dimmed
C18_Witness ==
    /\ cfg.OVERRIDE_MODE = "BRIGHT"
    /\ _cfg_mtime > 0
    /\ override_mode = "BRIGHT"
    /\ override_active
    /\ render_mode = "ticker"
    /\ ~frame_dimmed

\* C19: whatever the quick-dim percentage, the night-mode switch, its start
\* and end, its percentage and the time of day, current_dim_scale returns a
\* scale from 0.01 to 1.0 (1 to 100 percent).
C19_ScaleInRange ==
    dim_scale # None => dim_scale[1] \in 1..100

\* a negative night percentage has been resolved inside the night range: the
\* scale is the lower limit
C19_Witness ==
    /\ dim_scale # None
    /\ dim_args[1].QUICK_DIM_PCT = 0
    /\ dim_args[1].NIGHT_MODE_ENABLED
    /\ dim_args[1].NIGHT_MODE_DIM_PCT = MinPct
    /\ dim_args[1].NIGHT_MODE_START = <<22, 0>>
    /\ dim_args[1].NIGHT_MODE_END = <<7, 0>>
    /\ dim_args[1].now_t = <<23, 0>>
    /\ dim_scale[1] = 1

\* now is inside [nightStart, nightEnd), a range that wraps past midnight
\* when the start is later than the end
InNight(a) ==
    LET n == MinuteOfDay(a.now_t)
        st == MinuteOfDay(parse_hhmm(a.NIGHT_MODE_START))
        en == MinuteOfDay(parse_hhmm(a.NIGHT_MODE_END))
    IN  IF st <= en THEN st <= n /\ n < en ELSE n >= st \/ n < en

\* C20 as stated: the quick-dim percentage itself when it is above 0, else
\* the night percentage itself when night mode is on and now is inside the
\* night range, else 1.0.
C20_AsStated ==
    dim_scale # None =>
       LET a == dim_args[1]
       IN  dim_scale[1] = IF a.QUICK_DIM_PCT > 0 THEN a.QUICK_DIM_PCT
                          ELSE IF a.NIGHT_MODE_ENABLED /\ InNight(a)
                                 THEN a.NIGHT_MODE_DIM_PCT
                          ELSE 100

\* C20: the quick-dim percentage when it is above 0, else the night
\* percentage when night mode is on and now is inside the night range, each
\* limited to 1..100 percent, else 1.0.  Night mode off and quick-dim 0 give
\* 1.0 at any time; night mode 22:00-07:00 at 30 percent gives 0.30 at 23:00
\* and 1.0 at 12:00.
Limited(pct) == IF pct < 1 THEN 1 ELSE IF pct > 100 THEN 100 ELSE pct

C20_QuickThenNightThenFull ==
    dim_scale # None =>
       LET a == dim_args[1]
           nightB == /\ a.QUICK_DIM_PCT = 0 /\ a.NIGHT_MODE_ENABLED
                     /\ a.NIGHT_MODE_START = <<22, 0>> /\ a.NIGHT_MODE_END = <<7, 0>>
                     /\ a.NIGHT_MODE_DIM_PCT = 30
       IN  /\ dim_scale[1] = IF a.QUICK_DIM_PCT > 0 THEN Limited(a.QUICK_DIM_PCT)
                             ELSE IF a.NIGHT_MODE_ENABLED /\ InNight(a)
                                    THEN Limited(a.NIGHT_MODE_DIM_PCT)
                             ELSE 100
           /\ (a.QUICK_DIM_PCT = 0 /\ ~a.NIGHT_MODE_ENABLED) => dim_scale[1] = 100
           /\ (nightB /\ a.now_t = <<23, 0>>) => dim_scale[1] = 30
           /\ (nightB /\ a.now_t = <<12, 0>>) => dim_scale[1] = 100

\* night mode 22:00-07:00 at 30 percent has been resolved at 23:00
C20_Witness ==
    /\ dim_scale = Some(30)
    /\ dim_args[1].QUICK_DIM_PCT = 0
    /\ dim_args[1].NIGHT_MODE_ENABLED
    /\ dim_args[1].NIGHT_MODE_START = <<22, 0>>
    /\ dim_args[1].NIGHT_MODE_END = <<7, 0>>
    /\ dim_args[1].NIGHT_MODE_DIM_PCT = 30
    /\ dim_args[1].now_t = <<23, 0>>

\* ============================================================ night window
\* C21: time_in_range is a half-open interval test.  With start <= end it is
\* true exactly for start <= t < end; with start > end, a window that spans
\* midnight, exactly for t >= start or t < end.
C21_HalfOpenWindow ==
    in_range # None =>
       LET t == MinuteOfDay(range_args[1].now_t)
           st == MinuteOfDay(range_args[1].start_t)
           en == MinuteOfDay(range_args[1].end_t)
       IN  /\ (st <= en) => (in_range[1] <=> (st <= t /\ t < en))
           /\ (st > en) => (in_range[1] <=> (t >= st \/ t < en))

\* the window 22:00-07:00 has been tested at 06:59, the last minute inside
C21_Witness ==
    /\ range_args = Some([now_t |-> <<6, 59>>, start_t |-> <<22, 0>>, end_t |-> <<7, 0>>])
    /\ in_range = Some(TRUE)

\* ================================================================== scroll
\* C22 as stated: the drawn position ceil(x - 0.5) after an advance is never
\* to the right of the drawn position before it.
C22_AsStated ==
    [][_sp(x_single') <= _sp(x_single)]_vars

\* C22: an advance leaves the drawn position where it is or moves it to the
\* left, except when it ends the lap: then the row was within one frame's
\* travel of having left the panel completely, and it starts again at the
\* right edge.
C22_LeftwardUntilLapEnds ==
    [][\/ _sp(x_single') <= _sp(x_single)
       \/ /\ x_single' = MaxW * Quarter
          /\ x_single - MaxStep < -(MaxRowW * Quarter)]_vars

\* the row has advanced to a half-pixel mark with its left end off the panel
C22_Witness ==
    /\ pc = "loop"
    /\ x_single = -(Quarter \div 2)
    /\ _sp(x_single) = -1

\* =============================================================== game over
\* C23: once the followed game has ended, the scoreboard cache eventually
\* holds no LIVE game and the display is eventually back in TICKER.
C23_GameOverReturnsToTicker ==
    (game_state = "FINAL") ~> (~any_live(scoreboard_latest) /\ state = STATE_TICKER)

\* C24: a get_nowait of the scoreboard worker's put_latest takes a league
\* snapshot off the queue only to replace it by a newer snapshot of the same
\* league: with another league's snapshot or the scoreboard_status message
\* as the next message to put, the snapshots on the queue stay there for the
\* main loop.
C24_OwnPublishesKeepSnapshots ==
    [][(PutLatestDrain("scoreboard") /\ q["scoreboard"] # <<>>)
          => LET old == Head(q["scoreboard"])
                 new == Head(wmsgs["scoreboard"])
             IN  old.type = "scoreboard"
                    => (new.type = "scoreboard" /\ new.league = old.league)]_vars

\* ========================================================= leaving SCOREBOARD
\* C25: an iteration that starts in SCOREBOARD with no alert object, and
\* whose gate finds no override active and no LIVE game in the cache (or the
\* scoreboard disabled), ends in TICKER.
C25_ScoreboardLeftWhenNotLive ==
    [][(/\ Iteration
        /\ state = STATE_SCOREBOARD
        /\ alert_obj = None
        /\ ~override_active'
        /\ ~(cfg'.SCOREBOARD_ENABLED /\ any_live(scoreboard_latest')))
          => state' = STATE_TICKER]_vars

\* SCOREBOARD has been left for TICKER after the start, with the scoreboard
\* enabled and a cached NHL snapshot that is no longer LIVE; no preroll has
\* run, so TICKER was entered from SCOREBOARD
C25_Witness ==
    /\ state = STATE_TICKER
    /\ state_enter_ts > 0
    /\ next_top_ts = _compute_next_hour_ts(0)
    /\ fire_log = <<>>
    /\ cfg.SCOREBOARD_ENABLED
    /\ scoreboard_latest["NHL"] # None
    /\ ~any_live(scoreboard_latest)
    /\ ~override_active
    /\ alert_obj = None

\* ================================================================= preroll
\* a preroll duration longer than what is left of a market-event window
\* entered after its first second
LongPrerollSec == 2

\* config.json asks for the long preroll
InitPreroll ==
    InitWith(WithKeys(Defaults, [TIME_PREROLL_SEC |-> LongPrerollSec]), 0)

NextPreroll ==
    \/ Start
    \/ Tick
    \/ Advance

\* the display engine with a long preroll configured
SpecPreroll == InitPreroll /\ [][NextPreroll]_vars

\* C26: a market-event preroll is left for TICKER only when the configured
\* preroll duration has elapsed, also when its event window has closed
\* meanwhile.
C26_MarketPrerollRunsFullDuration ==
    [][(/\ Iteration
        /\ state = STATE_PREROLL
        /\ preroll_reason \in {"market_open", "market_close"}
        /\ state' = STATE_TICKER)
          => now - state_enter_ts >= cfg.TIME_PREROLL_SEC]_vars

\* C27: an iteration takes the FSM from PREROLL to SCOREBOARD only with
\* precedence "force", the scoreboard enabled and a LIVE game cached; with
\* precedence "normal" a live game never ends a running preroll.
C27_EvictionOnlyWhenForced ==
    [][Iteration /\ state = STATE_PREROLL /\ state' = STATE_SCOREBOARD
         => /\ cfg'.SCOREBOARD_PRECEDENCE = "force"
            /\ cfg'.SCOREBOARD_ENABLED
            /\ any_live(scoreboard_latest')]_vars

\* the market-open preroll fired in the first second of its window and the
\* FSM entered SCOREBOARD in that same second, under "force"
C27_Witness ==
    /\ state = STATE_SCOREBOARD
    /\ state_enter_ts = OpenStart
    /\ fire_log = <<<<0, "open">>>>
    /\ cfg.SCOREBOARD_PRECEDENCE = "force"
    /\ cfg.SCOREBOARD_ENABLED
    /\ any_live(scoreboard_latest)

\* ============================================================ score alerts
\* two flash colors, as SCORE_ALERTS_FLASH_COLORS="red,white" gives
TwoFlashColors == <<"red", "white">>

\* SCORE_ALERTS_CYCLES as configured at startup
AlertCycles == {0, 2}

InitAlert ==
    \E cy \in AlertCycles :
       /\ InitColors(WithKeys(Defaults, [SCORE_ALERTS_CYCLES |-> cy]), 0,
                     TwoFlashColors)
       /\ dim_args = None
       /\ dim_scale = None
       /\ RangeIdle

\* the main loop with alerts pushed as detect_score_bursts pushes them
NextAlert ==
    \/ Start
    \/ PushAlert
    \/ QuietTick
    \/ Advance

SpecAlert == InitAlert /\ [][NextAlert]_vars

\* what tells one alert from another
AlertEntry(a) == [league |-> a.league, score |-> a.score]

\* C28: alert_obj holds at most one alert. From one iteration to the next the
\* active alert stays the same alert, and a frame of the alert branch drawn
\* at or after its flash deadline moves it to the next color of the list and
\* sets the next deadline one flash interval later, any other frame leaves it
\* as it is. The alert is retired by the color change that completes lap
\* number max(1, cycles) of the color list, cycles being the value the alert
\* was created with. An alert is created only when none is active, from the
\* oldest queued entry, which is taken off the queue; the queue is otherwise
\* left alone.
C28_AlertLifecycle ==
    [][Iteration =>
        LET n == Len(_SCORE_FLASH_COLORS)
        IN  /\ alert_obj' = None \/ Len(alert_obj') = 1
            /\ (alert_obj # None /\ alert_obj' # None) =>
                  LET a == alert_obj[1]
                      b == alert_obj'[1]
                  IN  /\ AlertEntry(b) = AlertEntry(a)
                      /\ b.cycles = a.cycles
                      /\ alert_queue' = alert_queue
                      /\ IF render_mode' = "alert" /\ now >= a.flash_next_ts
                            THEN /\ b.flash_idx = (a.flash_idx + 1) % n
                                 /\ b.flash_next_ts = now + FlashLen
                                 /\ b.flashed = a.flashed + 1
                            ELSE b = a
            /\ (alert_obj # None /\ alert_obj' = None) =>
                  LET a == alert_obj[1]
                  IN  /\ render_mode' = "alert"
                      /\ now >= a.flash_next_ts
                      /\ a.flashed + 1 = Max(1, a.cycles) * n
                      /\ alert_queue' = alert_queue
            /\ (alert_obj = None /\ alert_obj' # None) =>
                  LET b == alert_obj'[1]
                  IN  /\ alert_queue # <<>>
                      /\ AlertEntry(b) = Head(alert_queue)
                      /\ alert_queue' = Tail(alert_queue)
                      /\ b.cycles = cfg'.SCORE_ALERTS_CYCLES
                      /\ b.flash_idx = 0
                      /\ b.flashed = 0
            /\ (alert_obj = None /\ alert_obj' = None) =>
                  alert_queue' = alert_queue]_vars

\* with SCORE_ALERTS_CYCLES = 0 the first alert pushed has been retired and
\* the second one, pushed while the first was flashing, is active and has
\* changed color once
C28_Witness ==
    /\ alert_obj # None
    /\ alert_obj[1].score = 2
    /\ alert_obj[1].cycles = 0
    /\ alert_obj[1].flashed = 1
    /\ alert_obj[1].flash_idx = 1
    /\ pushed = 2

\* ========================================================= score detection
\* SCOREBOARD_NHL_TEAMS, SCOREBOARD_NFL_TEAMS as the environment has them
MyTeams(lg) == IF lg = "NHL" THEN {"MTL"} ELSE {"NE"}

\* the game a league payload carries: the followed team plays away in the
\* NHL game and at home in the NFL game
HomeCode(lg) == IF lg = "NHL" THEN "BOS" ELSE "NE"
AwayCode(lg) == IF lg = "NHL" THEN "MTL" ELSE "NYJ"

Game(lg, hs, as, st) ==
    [home  |-> [code |-> HomeCode(lg), score |-> hs],
     away  |-> [code |-> AwayCode(lg), score |-> as],
     state |-> st]

\* the scores a team can stand at
Scores(lg) == IF lg = "NHL" THEN {0, 1} ELSE {0, 3, 7}

GameStates == {"LIVE", "FINAL"}

\* the payloads the scoreboard worker can publish for a league
Payloads(lg) ==
    {[games |-> <<Game(lg, hs, as, st)>>] :
        hs \in Scores(lg), as \in Scores(lg), st \in GameStates}

\* the body of detect_score_bursts' inner loop for game g of league lg:
\* [queue, scores] after it
DetectGame(res, lg, g, c, maxlen) ==
    LET hs   == g.home.score
        as   == g.away.score
        prev == res.scores[lg]
        seen == [res EXCEPT !.scores[lg] = Some(<<hs, as>>)]
    IN  IF prev = None THEN seen
        ELSE IF g.state # "LIVE" THEN seen
        ELSE LET dh == hs - prev[1][1]
                 da == as - prev[1][2]
                 scored ==
                    IF lg = "NHL" /\ c.SCORE_ALERTS_NHL
                      THEN IF dh > 0 THEN "home"
                           ELSE IF da > 0 THEN "away" ELSE ""
                    ELSE IF lg = "NFL" /\ c.SCORE_ALERTS_NFL
                      THEN IF dh >= NFL_TD_DELTA_MIN THEN "home"
                           ELSE IF da >= NFL_TD_DELTA_MIN THEN "away" ELSE ""
                    ELSE ""
             IN  IF scored = "" THEN seen
                 ELSE LET side == IF scored = "home" THEN g.home ELSE g.away
                      IN  IF c.SCORE_ALERTS_MY_TEAMS_ONLY
                             /\ side.code \notin MyTeams(lg)
                            THEN seen
                          ELSE [seen EXCEPT !.queue =
                                  _push_alert(res.queue, maxlen,
                                      [league |-> lg, team |-> side.code,
                                       score |-> side.score])]

RECURSIVE DetectGames(_, _, _, _, _)
DetectGames(res, lg, games, c, maxlen) ==
    IF games = <<>> THEN res
    ELSE DetectGames(DetectGame(res, lg, Head(games), c, maxlen),
                     lg, Tail(games), c, maxlen)

\* detect_score_bursts on payloads that carry both teams of a game
DetectPayloads(queue, scores, cache, c, maxlen) ==
    LET res0 == [queue |-> queue, scores |-> scores]
        nhl  == IF cache["NHL"] = None THEN res0
                ELSE DetectGames(res0, "NHL", cache["NHL"][1].games, c, maxlen)
        nfl  == IF cache["NFL"] = None THEN nhl
                ELSE DetectGames(nhl, "NFL", cache["NFL"][1].games, c, maxlen)
    IN  IF ~c.SCORE_ALERTS_ENABLED THEN res0 ELSE nfl

\* the caches poll_queues_nonblock can leave: nothing new, or a new payload
\* of one league
Polled(cache) ==
    {cache} \cup UNION {{[cache EXCEPT ![lg] = Some(p)] : p \in Payloads(lg)} :
                         lg \in LeagueSet}

\* poll_queues_nonblock and detect_score_bursts of one iteration, followed
\* from an empty alert queue (detection reads the queue only to push)
Observe ==
    /\ pc = "loop"
    /\ alert_queue = <<>>
    /\ \E cache1 \in Polled(scoreboard_latest) :
         LET det == DetectPayloads(alert_queue, last_scores, cache1, cfg,
                                   alert_maxlen)
         IN  /\ scoreboard_latest' = cache1
             /\ alert_queue' = det.queue
             /\ last_scores' = det.scores
    /\ UNCHANGED <<envVars, dimVars, cfgVars, ovVars, fsmVars, workerVars,
                   mainVars, market_cache, weather_cache, alert_maxlen,
                   alert_obj, pushed>>

InitDetect ==
    \E mine \in BOOLEAN :
       InitWith(WithKeys(Defaults, [SCORE_ALERTS_MY_TEAMS_ONLY |-> mine]), 0)

NextDetect ==
    \/ Start
    \/ Observe
    \/ PopAlert

SpecDetect == InitDetect /\ [][NextDetect]_vars

\* the rise of a score that makes an alert: any goal, a touchdown
Rise(lg) == IF lg = "NHL" THEN 1 ELSE NFL_TD_DELTA_MIN

\* the alerts the observation of game g owes, given the scores seen before
AlertsOwed(lg, g, prev) ==
    IF prev = None \/ g.state # "LIVE" THEN {}
    ELSE (IF g.home.score - prev[1][1] >= Rise(lg)
            THEN {[league |-> lg, team |-> g.home.code, score |-> g.home.score]}
            ELSE {})
         \cup
         (IF g.away.score - prev[1][2] >= Rise(lg)
            THEN {[league |-> lg, team |-> g.away.code, score |-> g.away.score]}
            ELSE {})

\* C29: an observation enqueues, for the LIVE game of each league, one alert
\* for each team whose score has risen since the game was last observed (NHL:
\* by any amount, NFL: by the touchdown threshold at least), and nothing
\* else: nothing for a game observed for the first time, nothing for a
\* payload processed again unchanged.
C29_OneAlertPerScoreChange ==
    [][(pc = "loop" /\ alert_queue = <<>>
          /\ <<scoreboard_latest, last_scores, alert_queue>>'
                # <<scoreboard_latest, last_scores, alert_queue>>)
         => LET owed == UNION {IF scoreboard_latest'[lg] = None THEN {}
                               ELSE AlertsOwed(lg,
                                               scoreboard_latest'[lg][1].games[1],
                                               last_scores[lg]) :
                               lg \in LeagueSet}
            IN  /\ {alert_queue'[i] : i \in 1..Len(alert_queue')} = owed
                /\ Len(alert_queue') = Cardinality(owed)]_vars

\* ========================================================= weather banner
\* a message is a sequence of characters; the longest headline followed
MaxTitleLen == 2

Chars == {"a", "b", " "}

\* str.strip()
RECURSIVE lstrip(_)
lstrip(m) == IF m # <<>> /\ Head(m) = " " THEN lstrip(Tail(m)) ELSE m

RECURSIVE rstrip(_)
rstrip(m) ==
    IF m # <<>> /\ m[Len(m)] = " " THEN rstrip(SubSeq(m, 1, Len(m) - 1))
    ELSE m

strip(m) == rstrip(lstrip(m))

\* "Weather alert"
DefaultHeadline == <<"W">>

\* the headlines fetch_weather_warning returns with an active flag: a feed
\* title, never empty, without blanks around it
Titles ==
    {m \in UNION {[1..n -> Chars] : n \in 1..MaxTitleLen} : strip(m) = m}

Severities == {"warning", "advisory", "watch", "statement"}

\* the payloads weather_worker publishes
WeatherPayloads ==
    {[active |-> TRUE, message |-> m, severity |-> sv] :
        m \in Titles, sv \in Severities}
    \cup {[active |-> FALSE, message |-> <<>>, severity |-> sv] :
            sv \in {"", "none"}}

\* the weather fold that pins again only from an inactive banner
FoldBanner_NoRepin(banner, payload) ==
    LET new_msg == strip(payload.message)
    IN  IF payload.active
          THEN IF ~banner.active
                 THEN [active   |-> TRUE,
                       message  |-> IF new_msg # <<>> THEN new_msg
                                    ELSE DefaultHeadline,
                       severity |-> payload.severity]
               ELSE banner
        ELSE [banner EXCEPT !.active = FALSE]

\* poll_queues_nonblock, a weather message (lines 848-862): the banner after
FoldBanner(banner, payload) ==
    LET new_msg == strip(payload.message)
    IN  IF payload.active
          THEN IF ~banner.active
                  \/ (new_msg # <<>> /\ new_msg # banner.message)
                 THEN [active   |-> TRUE,
                       message  |-> IF new_msg # <<>> THEN new_msg
                                    ELSE DefaultHeadline,
                       severity |-> payload.severity]
               ELSE banner
        ELSE [banner EXCEPT !.active = FALSE]

\* the main loop takes a weather message off its queue
FoldWeather ==
    /\ pc = "loop"
    /\ \E payload \in WeatherPayloads :
          /\ weather_banner' = FoldBanner(weather_banner, payload)
          /\ banner_in' = Some(payload)
    /\ UNCHANGED <<envVars, dim_args, dim_scale, reply, range_args, in_range,
                   x_single, game_state, _SCORE_FLASH_COLORS, rowVars, restartVars,
                   statusVars,
                   cfgVars, ovVars,
                   fsmVars, alertVars, cacheVars, workerVars, mainVars>>

NextBanner ==
    \/ Start
    \/ FoldWeather

SpecBanner == Init /\ [][NextBanner]_vars

\* C30: folding a weather payload pins the banner (active, with the payload's
\* message and severity) when the payload is active and the banner was
\* inactive or pinned another message; leaves the banner as it was when the
\* payload is active with the pinned message; makes it inactive when the
\* payload is inactive.
C30_BannerFsm ==
    [][(banner_in' # None /\ bannerVars' # bannerVars) =>
        LET p == banner_in'[1]
            pins == p.active /\ (~weather_banner.active
                                  \/ p.message # weather_banner.message)
        IN  /\ pins => weather_banner' = [active   |-> TRUE,
                                          message  |-> p.message,
                                          severity |-> p.severity]
            /\ (p.active /\ ~pins) => weather_banner' = weather_banner
            /\ ~p.active => ~weather_banner'.active]_vars

\* the banner is pinned and the payload folded last is active with the
\* pinned message but another severity: it was left as it was
C30_Witness ==
    /\ weather_banner.active
    /\ banner_in # None
    /\ banner_in[1].active
    /\ banner_in[1].message = weather_banner.message
    /\ banner_in[1].severity # weather_banner.severity

\* ====================================================== the ticker row pass
\* scroll completions followed
MaxPasses == 4

\* what a slow frame moves the row by, in quarter pixels
RowStep == 24

\* s.get_width() of a segment, in pixels
PartW == 2

\* the ticker content of the single row
single_parts == <<"AAPL", "MSFT">>

\* injector_active (lines 781, 1172), INJECT_MESSAGE being set
injector_active(c) == c.MESSAGE_EVERY > 0

\* should_show_weather_alert with the warning period for every severity
should_show_weather_alert_OnePeriod(banner, c, scroll_count) ==
    IF ~banner.active THEN FALSE
    ELSE IF banner.severity \in {"warning", "advisory", "watch"}
      THEN scroll_count % Max(1, c.WEATHER_WARNING_EVERY_N_SCROLLS) = 0
    ELSE FALSE

\* should_show_weather_alert (lines 1014-1025)
should_show_weather_alert(banner, c, scroll_count) ==
    IF ~banner.active THEN FALSE
    ELSE IF banner.severity = "warning"
      THEN scroll_count % Max(1, c.WEATHER_WARNING_EVERY_N_SCROLLS) = 0
    ELSE IF banner.severity \in {"advisory", "watch"}
      THEN scroll_count % Max(1, c.WEATHER_ADVISORY_EVERY_N_SCROLLS) = 0
    ELSE FALSE

\* the flag computed from the count itself
NextPassHasMessage_SameCount(c, completed) ==
    injector_active(c) /\ completed % Max(1, c.MESSAGE_EVERY) = 0

\* show_msg_single as a scroll completion sets it (lines 1652, 1674),
\* MESSAGE_ROW being "auto"; completed is the count already incremented
NextPassHasMessage(c, completed) ==
    injector_active(c) /\ (completed + 1) % Max(1, c.MESSAGE_EVERY) = 0

\* the segments of a normal pass (lines 1654-1662)
TickerParts(c, open_srf, ann_srf, show_msg) ==
    <<"time">>
    \o (IF open_srf THEN <<"market_open">>
        ELSE IF ann_srf THEN <<"market_announcement">> ELSE <<>>)
    \o (IF injector_active(c) /\ (c.MESSAGE_TEST_FORCE \/ show_msg)
          THEN <<"message">> ELSE <<>>)
    \o single_parts

\* total_w = max(1, sum of the widths), in quarter pixels
TotalW(ps) == Max(1, Len(ps) * PartW) * Quarter

\* one frame of the TICKER branch in the single-row layout (lines 1344-1359,
\* 1603-1674), the row travelling d quarter pixels; open_ev: the MARKET OPEN
\* announcement is due and the market REGULAR; ann_ev: another market
\* announcement is due
SingleRowFrame(d, open_ev, ann_ev) ==
    /\ pc = "loop"
    /\ completed_single < MaxPasses
    /\ LET arm   == /\ market_open_scrolls_left = 0
                    /\ market_open_scroll_date # Some(Date(now))
                    /\ open_ev
           left1 == IF arm THEN MARKET_OPEN_SCROLLS
                    ELSE market_open_scrolls_left
           should_show ==
               /\ should_show_weather_alert(weather_banner, cfg, completed_single)
               /\ weather_banner.message # <<>>
           start == should_show /\ ~weather_scroll_shown
           shown1 == IF start THEN TRUE
                     ELSE IF ~should_show /\ weather_scroll_shown THEN FALSE
                     ELSE weather_scroll_shown
           x0 == IF start THEN MaxW * Quarter ELSE x_single
           weather == shown1 /\ weather_banner.severity
                                  \in {"warning", "advisory", "watch"}
           ps == IF weather THEN <<"time", "weather">>
                 ELSE TickerParts(cfg, left1 > 0, ann_ev, show_msg_single)
           x1 == x0 - d
           lap == LapDone(x1, TotalW(ps))
       IN  /\ market_open_scroll_date' =
                 IF arm THEN Some(Date(now)) ELSE market_open_scroll_date
           /\ parts' = ps
           /\ row_mode' = IF weather THEN "weather" ELSE "ticker"
           /\ x_single' = IF lap THEN MaxW * Quarter ELSE x1
           /\ completed_single' =
                 IF lap THEN completed_single + 1 ELSE completed_single
           /\ weather_scroll_shown' = IF lap /\ weather THEN FALSE ELSE shown1
           /\ market_open_scrolls_left' =
                 IF lap /\ ~weather /\ left1 > 0 THEN left1 - 1 ELSE left1
           /\ show_msg_single' =
                 IF lap /\ ~cfg.MESSAGE_TEST_FORCE
                   THEN NextPassHasMessage(cfg, completed_single + 1)
                   ELSE show_msg_single
    /\ UNCHANGED <<envVars, dim_args, dim_scale, reply, range_args, in_range,
                   bannerVars, game_state, _SCORE_FLASH_COLORS, cfgVars, ovVars,
                   fsmVars, alertVars, cacheVars, workerVars, mainVars,
                   restartVars, statusVars>>

\* the banner as the weather fold left it
PinnedBanners ==
    {NoBanner}
    \cup {[active |-> TRUE, message |-> <<"a">>, severity |-> sv] :
            sv \in {"warning", "advisory", "statement"}}

\* the pass settings of config.json
PassDocs ==
    {WithKeys(Defaults,
              [WEATHER_WARNING_EVERY_N_SCROLLS  |-> n,
               WEATHER_ADVISORY_EVERY_N_SCROLLS |-> n + 1,
               MESSAGE_EVERY |-> ev, MESSAGE_TEST_FORCE |-> force]) :
        n \in 1..3, ev \in {0, 2, 3}, force \in BOOLEAN}

InitRow ==
    \E doc \in PassDocs, banner \in PinnedBanners :
       /\ InitBanner(doc, 0, DefaultFlashColors, banner)
       /\ dim_args = None
       /\ dim_scale = None
       /\ RangeIdle

NextRow ==
    \/ Start
    \/ \E d \in {0, RowStep}, open_ev \in BOOLEAN, ann_ev \in BOOLEAN :
          SingleRowFrame(d, open_ev, ann_ev)

SpecRow == InitRow /\ [][NextRow]_vars

\* a frame of the ticker row has been drawn
RowFrame == pc = "loop" /\ <<rowVars, x_single>>' # <<rowVars, x_single>>

\* C31: with the banner active and of severity warning (advisory, watch), a
\* frame of the ticker row draws the weather alert pass exactly when the
\* row's completion count is a multiple of WEATHER_WARNING_EVERY_N_SCROLLS
\* (WEATHER_ADVISORY_EVERY_N_SCROLLS), and a frame moves the count by one at
\* most: weather passes are N passes apart, with N-1 ordinary ones between.
C31_WeatherPassEveryN ==
    [][(RowFrame /\ weather_banner.active
          /\ weather_banner.severity \in {"warning", "advisory", "watch"})
        => LET n == IF weather_banner.severity = "warning"
                      THEN cfg.WEATHER_WARNING_EVERY_N_SCROLLS
                      ELSE cfg.WEATHER_ADVISORY_EVERY_N_SCROLLS
           IN  /\ (row_mode' = "weather") <=> (completed_single % n = 0)
               /\ completed_single' \in {completed_single,
                                          completed_single + 1}]_vars

\* an advisory with period 3: the second weather pass is under way, after
\* passes 1 and 2 went by as ordinary ones
C31_Witness ==
    /\ weather_banner.active
    /\ weather_banner.severity = "advisory"
    /\ cfg.WEATHER_ADVISORY_EVERY_N_SCROLLS = 3
    /\ completed_single = 3
    /\ row_mode = "weather"
    /\ weather_scroll_shown
    /\ x_single < MaxW * Quarter

\* the banner segments of a row
Banners == {"market_open", "market_announcement", "message", "weather"}

\* C32: in every tick the segment list composed for the ticker row is the
\* clock segment, then at most one banner (market event, injected message
\* and weather alert exclude one another), then, on a ticker pass, the row's
\* content segments in order.
C32_OneBannerPerTick ==
    row_mode # "none" =>
       LET n == Cardinality({i \in DOMAIN parts : parts[i] \in Banners})
       IN  /\ n <= 1
           /\ parts[1] = "time"
           /\ \A i \in 2..(1 + n) : parts[i] \in Banners
           /\ row_mode = "ticker" => SubSeq(parts, 2 + n, Len(parts)) = single_parts

MaxLate == 12

\* the wall clock advances by one unit, over several hours
LateAdvance ==
    /\ pc # "start"
    /\ now < MaxLate
    /\ now' = now + 1
    /\ UNCHANGED <<score_now, cfg_file, file_mtime, file_state, dimVars, cfgVars,
                   ovVars, fsmVars,
                   alertVars, cacheVars, workerVars, mainVars>>

NextHour ==
    \/ Start
    \/ QuietTick
    \/ LateAdvance
    \/ RequestOverride

\* the display engine over several hours, overrides set and cleared at will
SpecHour == InitOverride /\ [][NextHour]_vars

\* the hour preroll fires (line 1269)
HourFires ==
    /\ state = STATE_TICKER
    /\ state' = STATE_PREROLL
    /\ preroll_reason' = "hour"

\* C34: next_top_ts is always an hour boundary; the hour preroll fires at or
\* after it only, and the firing sets it to the first boundary after now;
\* it never moves back.  Hence two firings never fall into one wall-clock
\* hour, however late the first one was.
C34_HourDeadline ==
    /\ [](next_top_ts % HourLen = 0)
    /\ [][/\ next_top_ts' >= next_top_ts
          /\ HourFires =>
                /\ now >= next_top_ts
                /\ next_top_ts' > now
                /\ next_top_ts' - HourLen <= now]_vars

\* the hour preroll of the second hour, fired late in that hour after an
\* override was cleared; the deadline is the start of the third hour
C34_Witness ==
    /\ state = STATE_PREROLL
    /\ preroll_reason = "hour"
    /\ state_enter_ts = 2 * HourLen - 1
    /\ now = state_enter_ts
    /\ next_top_ts = 2 * HourLen
    /\ ~override_active

\* ======================================================= worker processes
\* writes of config.json followed
MaxSaves == 2

\* everything but the worker processes and the status file
progVars == <<envVars, cfgVars, ovVars, fsmVars, alertVars, cacheVars,
              workerVars, mainVars, dim_args, dim_scale, reply, range_args,
              in_range, x_single, bannerVars, game_state, _SCORE_FLASH_COLORS,
              rowVars>>

\* the category of _apply_config a worker is restarted on
CategoryOf(w) == IF w = "market" THEN "markets" ELSE w

\* the categories _maybe_reload_config reports (lines 522-536): those with
\* a key whose value in the file differs from the global
RFlags(mem, file) ==
    {CategoryOf(w) : w \in {v \in WorkerNames : mem[CategoryOf(v)] # file[CategoryOf(v)]}}
    \cup (IF mem.enabled # file.enabled THEN {"scoreboard"} ELSE {})
    \cup (IF mem.CLOCK_24H # file.CLOCK_24H THEN {"override"} ELSE {})
    \cup (IF mem.QUICK_DIM_PCT # file.QUICK_DIM_PCT THEN {"dim"} ELSE {})

\* set_globals of rendering.py (lines 101-106): the keys given that the
\* module has replace its globals
set_globals(g, kwargs) ==
    [k \in DOMAIN g |-> IF k \in DOMAIN kwargs THEN kwargs[k] ELSE g[k]]

\* the quick-dim percentage the operator switches to and from
DimPct == 50

\* _terminate_worker without the kill
_terminate_worker_NoKill(ps, h, hard) == IF hard THEN ps ELSE ps \ {h}

\* _terminate_worker (lines 582-589) on the processes ps of a source, h the
\* handle: terminate and join; hard: the process outlives the join, and is
\* killed
_terminate_worker(ps, h, hard) ==
    LET joined == IF hard THEN ps ELSE ps \ {h}
    IN  IF h \in joined THEN joined \ {h} ELSE joined

\* run() up to the main loop (lines 721-741): the initial load and the workers
RStart ==
    /\ rpc = "start"
    /\ rpc' = "poll"
    /\ rmem' = rfile
    /\ LET ws == IF DEMO_MODE THEN {}
                 ELSE IF rfile.enabled THEN WorkerNames
                 ELSE WorkerNames \ {"scoreboard"}
       IN  /\ nstarted' = [w \in WorkerNames |-> IF w \in ws THEN 1 ELSE 0]
           /\ handles' = nstarted'
           /\ procs' = [w \in WorkerNames |-> IF w \in ws THEN {1} ELSE {}]
    /\ rendering' = set_globals(rendering, Mirrored(rfile))
    /\ UNCHANGED <<rfile, sbq_by, cache_by, progVars, statusVars>>

\* poll_queues_nonblock, the scoreboard fold (lines 864-872): the queue is
\* emptied into the cache while the scoreboard is enabled
RPoll ==
    /\ rpc = "poll"
    /\ rpc' = "reload"
    /\ IF rmem.enabled
         THEN /\ sbq_by' = <<>>
              /\ cache_by' = IF sbq_by = <<>> THEN cache_by
                             ELSE {sbq_by[Len(sbq_by)]}
         ELSE UNCHANGED <<sbq_by, cache_by>>
    /\ UNCHANGED <<rfile, rmem, procs, handles, nstarted, rendering, progVars,
                   statusVars>>

\* the reload of the same iteration (lines 1110-1207): the workers of the
\* categories that changed are terminated and started again, the scoreboard
\* worker only when the scoreboard is enabled, the cache being cleared
RReload ==
    /\ rpc = "reload"
    /\ rpc' = "poll"
    /\ rmem' = rfile
    /\ \E hard \in BOOLEAN :
         LET flags == RFlags(rmem, rfile)
             again == {w \in WorkerNames :
                         /\ ~DEMO_MODE
                         /\ CategoryOf(w) \in flags
                         /\ w = "scoreboard" => rfile.enabled}
         IN  /\ nstarted' = [w \in WorkerNames |->
                    IF w \in again THEN nstarted[w] + 1 ELSE nstarted[w]]
             /\ handles' = [w \in WorkerNames |->
                    IF w \in again THEN nstarted'[w]
                    ELSE IF w = "scoreboard" /\ "scoreboard" \in flags /\ ~DEMO_MODE
                      THEN 0 ELSE handles[w]]
             /\ procs' = [w \in WorkerNames |->
                    IF CategoryOf(w) \in flags /\ ~DEMO_MODE
                      THEN _terminate_worker(procs[w], handles[w], hard)
                             \cup (IF w \in again THEN {nstarted'[w]} ELSE {})
                      ELSE procs[w]]
             /\ cache_by' = IF "scoreboard" \in flags /\ ~DEMO_MODE
                              THEN {} ELSE cache_by
             /\ rendering' =
                   IF "dim" \in flags
                     THEN set_globals(rendering,
                                      [QUICK_DIM_PCT |-> rfile.QUICK_DIM_PCT])
                     ELSE rendering
    /\ UNCHANGED <<rfile, sbq_by, progVars, statusVars>>

\* the scoreboard worker publishes a snapshot: put_latest empties the queue
\* and puts (src/utils.py:299-312, src/workers.py:558-568)
RPublish ==
    /\ \E g \in procs["scoreboard"] : sbq_by' = <<g>>
    /\ UNCHANGED <<rpc, rfile, rmem, procs, handles, nstarted, cache_by,
                   rendering, progVars, statusVars>>

\* a settings save that changes a key of one worker category, or switches
\* the scoreboard on or off
RSave ==
    /\ rfile.saves < MaxSaves
    /\ \E doc \in {[rfile EXCEPT ![CategoryOf(w)] = @ + 1] : w \in WorkerNames}
                  \cup {[rfile EXCEPT !.enabled = ~@, !.scoreboard = @ + 1],
                        [rfile EXCEPT !.CLOCK_24H = ~@],
                        [rfile EXCEPT !.QUICK_DIM_PCT = DimPct - @]} :
          rfile' = [doc EXCEPT !.saves = @ + 1]
    /\ UNCHANGED <<rpc, rmem, procs, handles, nstarted, sbq_by, cache_by,
                   rendering, progVars, statusVars>>

\* the signal is seen at the top of the loop and the teardown terminates,
\* joins and kills every worker (lines 1803-1836)
RShutdown ==
    /\ rpc = "poll"
    /\ rpc' = "done"
    /\ \E hard \in BOOLEAN :
         procs' = [w \in WorkerNames |->
                     _terminate_worker(procs[w], handles[w], hard)]
    /\ UNCHANGED <<rfile, rmem, handles, nstarted, sbq_by, cache_by, rendering,
                   progVars, statusVars>>

NextRestart ==
    \/ RStart
    \/ RPoll
    \/ RReload
    \/ RPublish
    \/ RSave
    \/ RShutdown

\* the main loop, the scoreboard worker and the settings editor
SpecRestart == Init /\ [][NextRestart]_vars

\* a reload handles a change of the scoreboard category
ScoreboardChangeHandled ==
    /\ rpc = "reload"
    /\ rpc' = "poll"
    /\ "scoreboard" \in RFlags(rmem, rfile)

\* C35: when a scoreboard-category change has been handled the scoreboard
\* worker runs exactly if the scoreboard is enabled and the cache is empty,
\* and from the first such change on the cache holds snapshots of the
\* scoreboard worker started last only.
C35_CacheFromNewWorkerOnly ==
    /\ [][ScoreboardChangeHandled
            => /\ (procs'["scoreboard"] # {}) <=> rmem'.enabled
               /\ cache_by' = {}]_vars
    /\ [](rmem.scoreboard > 0 => cache_by \subseteq {handles["scoreboard"]} \ {0})

\* C37: no source ever has two worker processes alive, from startup through
\* the restarts of a reload to the teardown; a process is started only once
\* the one before it is gone.
C37_OneWorkerPerSource ==
    /\ [](\A w \in WorkerNames : Cardinality(procs[w]) <= 1)
    /\ [][\A w \in WorkerNames :
             nstarted'[w] # nstarted[w]
               => procs'[w] = {nstarted'[w]}]_vars

\* the market worker and the scoreboard worker restarted once each: the
\* second process of each is the only one of its source
C37_Witness ==
    /\ rpc = "poll"
    /\ nstarted["market"] = 2
    /\ nstarted["scoreboard"] = 2
    /\ procs["market"] = {2}
    /\ procs["scoreboard"] = {2}
    /\ procs["weather"] = {1}

\* ================================================ the override after expiry
\* the clock settings form: the 24-hour switch is flipped, the override
\* keys are written back as they are on file
SaveClock ==
    /\ CanSave(MaxWrites)
    /\ atomic_save_cfg(WithKeys(load_cfg, [CLOCK_24H |-> ~load_cfg.CLOCK_24H]))
    /\ UNCHANGED reply

NextExpiry ==
    \/ Start
    \/ QuietTick
    \/ Advance
    \/ RequestOverride
    \/ SaveClock

\* the override controller with the clock settings edited as well
SpecExpiry == InitOverride /\ [][NextExpiry]_vars

\* C36: in the main loop an override that is OFF becomes active only by a
\* reload of a document whose OVERRIDE_MODE or OVERRIDE_DURATION_MIN differs
\* from the value in force, that is, after the operator has set an override
\* again; a reload that changes other keys only leaves an expired override
\* OFF.
C36_ExpiredStaysOff ==
    [][(pc = "loop" /\ ~override_active /\ override_active')
        => \/ cfg'.OVERRIDE_MODE # cfg.OVERRIDE_MODE
           \/ cfg'.OVERRIDE_DURATION_MIN # cfg.OVERRIDE_DURATION_MIN]_vars

\* a reload has just been handled
ReloadHandled == rpc = "reload" /\ rpc' = "poll" /\ rmem' # rmem

\* C39: after a reload that changed CLOCK_24H or QUICK_DIM_PCT the value
\* rendering.py works with is the value loaded: the mirror never lags the
\* globals of ticker.py.
C39_MirrorFollowsReload ==
    [][ReloadHandled => rendering' = Mirrored(rmem')]_vars

\* ============================================== the reload poll, by step
\* _initial_config_load (lines 506-520), its load: a document with keys is
\* applied, and the modification time is read next
LoadInitial ==
    /\ pc = "start"
    /\ LET doc == _atomic_load_json(cfg_file, file_state)
       IN  /\ cfg' = IF doc # EmptyDoc THEN _apply_config(cfg, doc) ELSE cfg
           /\ pc' = IF doc # EmptyDoc THEN "initial_mtime" ELSE "poll"
    /\ UNCHANGED <<envVars, _cfg_mtime, ovVars, fsmVars, alertVars, cacheVars,
                   workerVars, _shutdown_requested, workers, x_maint, render_mode,
                   render_state, loop_count, procVars, dimVars>>

\* _initial_config_load, `_cfg_mtime = os.path.getmtime(CONFIG_PATH)`
StatInitial ==
    /\ pc = "initial_mtime"
    /\ _cfg_mtime' = IF file_state = "missing" THEN 0 ELSE file_mtime
    /\ pc' = "poll"
    /\ UNCHANGED <<envVars, cfg, ovVars, fsmVars, alertVars, cacheVars,
                   workerVars, _shutdown_requested, workers, x_maint, render_mode,
                   render_state, loop_count, procVars, dimVars>>

\* _maybe_reload_config (lines 522-536) up to the comparison: the
\* modification time is read; a missing file or a time not after
\* _cfg_mtime ends the poll
PollStat ==
    /\ pc = "poll"
    /\ file_state # "missing" /\ file_mtime > _cfg_mtime
    /\ m_read' = file_mtime
    /\ pc' = "poll_load"
    /\ UNCHANGED <<envVars, cfgVars, ovVars, fsmVars, alertVars, cacheVars,
                   workerVars, _shutdown_requested, workers, x_maint, render_mode,
                   render_state, loop_count, procVars, dim_args, dim_scale, reply,
                   range_args, in_range, x_single, bannerVars, game_state,
                   _SCORE_FLASH_COLORS, rowVars, restartVars, st_pc, st_data,
                   status_file, status_tmp>>

\* _maybe_reload_config from the load on: the document is read and applied,
\* and the time read before becomes _cfg_mtime
PollLoad ==
    /\ pc = "poll_load"
    /\ cfg' = _apply_config(cfg, _atomic_load_json(cfg_file, file_state))
    /\ _cfg_mtime' = m_read
    /\ pc' = "poll"
    /\ UNCHANGED <<envVars, ovVars, fsmVars, alertVars, cacheVars,
                   workerVars, _shutdown_requested, workers, x_maint, render_mode,
                   render_state, loop_count, procVars, dimVars>>

\* the editor saves at any moment
SaveAny ==
    /\ file_mtime < MaxWrites
    /\ \E doc \in SavedDocs(load_cfg) : atomic_save_cfg(doc)
    /\ UNCHANGED reply

NextPoll ==
    \/ LoadInitial
    \/ StatInitial
    \/ PollStat
    \/ PollLoad
    \/ SaveAny

\* the main loop keeps running; the editor may stop at any time
FairPoll ==
    /\ WF_vars(LoadInitial) /\ WF_vars(StatInitial)
    /\ WF_vars(PollStat) /\ WF_vars(PollLoad)

SpecPoll == Init /\ [][NextPoll]_vars /\ FairPoll

\* every key of config.json has the document's value in memory
Loaded == \A k \in DOMAIN load_cfg : cfg[k] = load_cfg[k]

\* C38: whatever the interleaving of the editor's saves with the loads of
\* the display engine, once the saves have stopped every key of the
\* document ends up in memory with the document's value, for good.
C38_EveryWriteLoaded == <>[]Loaded

\* ================================================= ticker_status.json
\* updates of its record each worker makes
MaxUpdates == 2

\* update_worker_status (src/utils.py:51-77) up to the write: the document
\* is loaded, {} when the file is absent or cannot be parsed, and the
\* worker's record is replaced in it
StatusLoad(w) ==
    /\ st_pc[w] = "idle"
    /\ st_data[w][w] < MaxUpdates
    /\ LET loaded == IF status_file.state = "ok" THEN status_file.workers
                     ELSE NoRecords
       IN  st_data' = [st_data EXCEPT
                         ![w] = [loaded EXCEPT ![w] = st_data[w][w] + 1]]
    /\ st_pc' = [st_pc EXCEPT ![w] = "loaded"]
    /\ UNCHANGED <<status_file, status_tmp, m_read, progVars, restartVars>>

\* json.dump into ticker_status.json.tmp, the one path every worker uses;
\* a dump that overlaps the dump of another worker may leave bytes of both
StatusDump(w) ==
    /\ st_pc[w] = "loaded"
    /\ status_tmp' \in {StatusFile(st_data[w])}
                       \cup (IF \E v \in WorkerNames \ {w} : st_pc[v] = "loaded"
                               THEN {Torn} ELSE {})
    /\ st_pc' = [st_pc EXCEPT ![w] = "dumped"]
    /\ UNCHANGED <<st_data, status_file, m_read, progVars, restartVars>>

\* os.replace of the temporary file; when another worker has moved it away
\* the call raises and the exception is swallowed
StatusReplace(w) ==
    /\ st_pc[w] = "dumped"
    /\ IF status_tmp.state = "absent"
         THEN UNCHANGED <<status_file, status_tmp>>
         ELSE /\ status_file' = status_tmp
              /\ status_tmp' = Absent
    /\ st_pc' = [st_pc EXCEPT ![w] = "idle"]
    /\ UNCHANGED <<st_data, m_read, progVars, restartVars>>

NextStatus ==
    \/ \E w \in WorkerNames : StatusLoad(w)
    \/ \E w \in WorkerNames : StatusDump(w)
    \/ \E w \in WorkerNames : StatusReplace(w)

\* the three workers updating their records at their own pace
SpecStatus == Init /\ [][NextStatus]_vars

\* C40: ticker_status.json never holds a torn document, and whenever every
\* worker has completed an update and none is under way, the document
\* holds the latest record of each worker.
C40_NoRecordLost ==
    /\ status_file.state # "torn"
    /\ (\A w \in WorkerNames : st_pc[w] = "idle" /\ st_data[w][w] >= 1)
         => /\ status_file.state = "ok"
            /\ \A w \in WorkerNames : status_file.workers[w] = st_data[w][w]

====
